---- MODULE Spec2Model ----
(***************************************************************************)
(* Model of devicemapper-rs: the ioctl transport (DM::ioctl / DM::do_ioctl *)
(* in src/core/dm.rs) and the udev rendezvous on a SysV semaphore set      *)
(* (src/core/dm_udev_sync.rs).  One caller runs one DM::ioctl call; the    *)
(* kernel answers each ioctl syscall according to a plan fixed at the      *)
(* start of the call; the udev rule and other processes act on the         *)
(* semaphore sets concurrently with the caller.  Every semaphore syscall   *)
(* and every ioctl syscall of the caller is one atomic step.               *)
(***************************************************************************)
EXTENDS Integers, Sequences, FiniteSets, TLC

(***************************************************************************)
(* Bounds of the model.                                                    *)
(***************************************************************************)
\* largest number of consecutive EBUSY answers a kernel plan holds
MaxBusy == 26
\* the 16-bit nonce of gen_cookie is drawn from 1..MaxNonce
MaxNonce == 2
\* number of semaphore sets the kernel can hold (ENOSPC beyond it)
MaxSems == 2
\* number of steps other processes take on the semaphore sets
MaxExt == 1

(***************************************************************************)
(* Program constants.                                                      *)
(***************************************************************************)
MIN_BUF_SIZE == 16384
IOCTL_RETRIES == 24
\* size_of::<dmi::Struct_dm_ioctl>()
DM_IOCTL_STRUCT_LEN == 312
\* NoDelay.take(4) in notify_sem_create
COOKIE_RETRIES == 4

(***************************************************************************)
(* u32 values are kept as <<high 16 bits, low 16 bits>>: u32::MAX does not *)
(* fit the checker's integers.                                             *)
(***************************************************************************)
u32(n) == <<n \div 65536, n % 65536>>

U32_MAX == <<65535, 65535>>

U32Less(a, b) == a[1] < b[1] \/ (a[1] = b[1] /\ a[2] < b[2])

U32Leq(a, b) == a = b \/ U32Less(a, b)

U32Max2(a, b) == IF U32Less(a, b) THEN b ELSE a

\* mutant: the doubling wraps around instead of saturating
wrapping_mul_2(x) ==
    LET lo2 == 2 * x[2]
    IN  <<(2 * x[1] + (lo2 \div 65536)) % 65536, lo2 % 65536>>

\* mutant: the buffer grows fourfold
saturating_mul_4(x) ==
    LET lo4 == 4 * x[2]
        hi4 == 4 * x[1] + (lo4 \div 65536)
    IN  IF hi4 > 65535 THEN U32_MAX ELSE <<hi4, lo4 % 65536>>

\* (len as u32).saturating_mul(2)
saturating_mul_2(x) ==
    LET lo2 == 2 * x[2]
        hi2 == 2 * x[1] + (lo2 \div 65536)
    IN  IF hi2 > 65535 THEN U32_MAX ELSE <<hi2, lo2 % 65536>>

(***************************************************************************)
(* Commands, flags and the kernel's answers.                               *)
(***************************************************************************)
Cmds == {"DM_DEV_REMOVE_CMD", "DM_DEV_RENAME_CMD", "DM_DEV_SUSPEND_CMD",
         "DM_TABLE_STATUS_CMD"}

\* the commands of the command surface (the pub fns of impl DM)
SurfaceCmds ==
    Cmds \cup {"DM_VERSION_CMD", "DM_REMOVE_ALL_CMD", "DM_LIST_DEVICES_CMD",
               "DM_DEV_CREATE_CMD", "DM_DEV_STATUS_CMD", "DM_DEV_WAIT_CMD",
               "DM_TABLE_LOAD_CMD", "DM_TABLE_CLEAR_CMD", "DM_TABLE_DEPS_CMD",
               "DM_LIST_VERSIONS_CMD", "DM_TARGET_MSG_CMD",
               "DM_DEV_ARM_POLL_CMD"}

\* the allowable_flags each command hands to to_ioctl_hdr
Allowable(cmd) ==
    CASE cmd \in {"DM_REMOVE_ALL_CMD", "DM_DEV_REMOVE_CMD"} ->
             {"DM_DEFERRED_REMOVE"}
      [] cmd = "DM_DEV_CREATE_CMD" -> {"DM_READONLY", "DM_PERSISTENT_DEV"}
      [] cmd = "DM_DEV_RENAME_CMD" -> {"DM_UUID"}
      [] cmd = "DM_DEV_SUSPEND_CMD" ->
             {"DM_SUSPEND_FLAG", "DM_NOFLUSH", "DM_SKIP_LOCKFS"}
      [] cmd \in {"DM_DEV_WAIT_CMD", "DM_TABLE_DEPS_CMD"} ->
             {"DM_QUERY_INACTIVE_TABLE"}
      [] cmd = "DM_TABLE_LOAD_CMD" -> {"DM_READONLY", "DM_SECURE_DATA"}
      [] cmd = "DM_TABLE_STATUS_CMD" ->
             {"DM_NOFLUSH", "DM_STATUS_TABLE", "DM_QUERY_INACTIVE_TABLE"}
      [] OTHER -> {}

\* flag sets a caller puts into the DmOptions of a command that takes them
CallerFlags ==
    {{}, {"DM_SUSPEND_FLAG"}, {"DM_SUSPEND_FLAG", "DM_NOFLUSH"},
     {"DM_DEFERRED_REMOVE", "DM_SUSPEND_FLAG"},
     {"DM_READONLY", "DM_QUERY_INACTIVE_TABLE", "DM_BUFFER_FULL_FLAG"}}

\* options.flags() at the call of to_ioctl_hdr: the caller's flags, the
\* default for the commands that take no options, and for a rename the
\* flags device_rename chooses from the kind of the new identifier
OptionFlags(cmd) ==
    CASE cmd \in {"DM_REMOVE_ALL_CMD", "DM_DEV_CREATE_CMD", "DM_DEV_REMOVE_CMD",
                  "DM_DEV_SUSPEND_CMD", "DM_DEV_WAIT_CMD", "DM_TABLE_LOAD_CMD",
                  "DM_TABLE_DEPS_CMD", "DM_TABLE_STATUS_CMD"} -> CallerFlags
      [] cmd = "DM_DEV_RENAME_CMD" -> {{}, {"DM_UUID"}}
      [] OTHER -> {{}}

\* mutant: the flags of the options go into the header unmasked
clean_flags_unmasked(allowable_flags, flags) == flags

\* to_ioctl_hdr: allowable_flags & self.flags()
clean_flags(allowable_flags, flags) == allowable_flags \cap flags

\* request flags the command surface can leave in hdr.flags for a command
ReqFlags(cmd) == {clean_flags(Allowable(cmd), f) : f \in OptionFlags(cmd)}

\* the calls explored with every kernel plan and every input
FullCall(cmd, flags) ==
    /\ cmd \in Cmds
    /\ flags \in (IF cmd = "DM_DEV_SUSPEND_CMD"
                  THEN {{}, {"DM_SUSPEND_FLAG"}} ELSE {{}})

\* the caller's input: the length of in_data (0 for None; 20000 makes header
\* + input exceed MIN_BUF_SIZE) and the udev flags of the options, which
\* to_ioctl_hdr shifts into the high half of hdr.event_nr
Inputs == {[in_len |-> 0, udev |-> {}],
           [in_len |-> 0, udev |-> {"DM_UDEV_DISABLE_LIBRARY_FALLBACK"}],
           [in_len |-> 20000, udev |-> {}]}

\* hdr.event_nr: high 16 bits a set of udev flags, low 16 bits a number
EventNr(h, l) == [hi |-> h, lo |-> l]

\* buffer sizes below which a kernel plan answers DM_BUFFER_FULL
Thresholds == {u32(1), u32(MIN_BUF_SIZE), u32(MIN_BUF_SIZE + 1), u32(40000),
               <<16, 0>>, <<32768, 1>>, U32_MAX, <<65536, 0>>}

\* to_ioctl_hdr: the header of a request (the name and uuid fields, which
\* the transport never reads, are left out)
to_ioctl_hdr(flags, udev_flags, allowable_flags) ==
    [flags |-> clean_flags(allowable_flags, flags),
     event_nr |-> EventNr(udev_flags, 0),
     data_start |-> u32(DM_IOCTL_STRUCT_LEN),
     data_size |-> u32(0)]

(***************************************************************************)
(* A kernel plan: the first `busy` ioctl syscalls fail with EBUSY; after   *)
(* them a syscall fails with errno `final` (when not "OK") once `errGrow`  *)
(* growths were made or the buffer reached `thresh`; otherwise it succeeds *)
(* with DM_BUFFER_FULL while the buffer is smaller than `thresh` and       *)
(* without it at or above.  `uevent`: the final success emits a uevent and *)
(* sets DM_UEVENT_GENERATED.  `evnr`: the event number the kernel writes   *)
(* into the response header's event_nr (-1: the field is left alone).      *)
(***************************************************************************)
KernelPlans ==
    \* EBUSY some number of times, then success or another errno
    [busy : 0..MaxBusy, thresh : {u32(1)}, final : {"OK", "ENXIO"},
     errGrow : {0}, uevent : BOOLEAN, evnr : {-1}]
    \cup
    \* DM_BUFFER_FULL below a threshold, then success
    [busy : {0}, thresh : Thresholds, final : {"OK"},
     errGrow : {0}, uevent : BOOLEAN, evnr : {-1, 0, 7}]
    \cup
    \* an errno on the first issue or on the re-issue after one growth
    [busy : {0}, thresh : {u32(1), <<16, 0>>}, final : {"ENXIO", "EBUSY"},
     errGrow : {0, 1}, uevent : {FALSE}, evnr : {-1}]

\* the plans of the calls outside FullCall: success at the first issue
SurfacePlans ==
    [busy : {0}, thresh : {u32(1)}, final : {"OK"}, errGrow : {0},
     uevent : BOOLEAN, evnr : {-1}]

\* the plans under which other processes act on the semaphore sets too
Contended(plan) ==
    plan.busy <= 1 /\ plan.final # "EBUSY" /\ U32Leq(plan.thresh, u32(40000))

\* the number of steps other processes take during the call
ExtSteps(plan) == IF Contended(plan) THEN 0..MaxExt ELSE {0}

\* the number of semaphore sets other processes hold when the call starts
ExtSets(plan) == IF Contended(plan) THEN {0, 1} ELSE {0}

KernelOutcome(plan, given, grown, size) ==
    IF given < plan.busy THEN "EBUSY"
    ELSE IF plan.final # "OK" /\ grown = plan.errGrow THEN plan.final
    ELSE IF U32Less(size, plan.thresh) THEN "FULL"
    ELSE plan.final

VARIABLES
    pc,            \* position of the caller inside DM::ioctl
    ioctl,         \* the command of the call
    in_len,        \* in_data.len(), 0 for None
    hdr,           \* the caller's header (the &mut hdr of DM::ioctl)
    delays,        \* delays left in Fixed::from_millis(..).take(IOCTL_RETRIES)
    tries,         \* number of do_ioctl invocations started
    gen_delays,    \* delays left in NoDelay.take(4) of notify_sem_create
    cookie_pair,   \* (cookie, semid) local to notify_sem_create / begin
    sync,          \* the UdevSync transaction of the current attempt
    v,             \* the transfer buffer: length, header fields, data
    grown,         \* buffer growths made in the current attempt
    op_result,     \* OperationResult of do_ioctl waiting behind cancel
    uevent_generated, \* argument of sync.end
    result,        \* what DM::ioctl returned
    sems,          \* the kernel's semaphore sets
    udevq,         \* uevents emitted, udev rule not yet run: their cookies
    kernel,        \* the kernel plan of this call
    busy_given,    \* EBUSY answers given so far
    next_semid,    \* identifier the kernel gives the next semaphore set
    ext_left,      \* steps other processes may still take
    hist           \* history of the call (observations only)

\* the record codec, applied to one table or one response at a time
VARIABLES
    cpc,           \* the function of dm.rs the codec is about to apply
    targets,       \* the targets argument of table_load
    data_in,       \* what table_load hands to DM::ioctl: target_count, bytes
    data_out,      \* what DM::ioctl returned: header fields and data_out
    decoded        \* what the decoding function returned

codec_vars == <<cpc, targets, data_in, data_out, decoded>>

transport_vars ==
    <<pc, ioctl, in_len, hdr, delays, tries, gen_delays, cookie_pair, sync,
      v, grown, op_result, uevent_generated, result, sems, udevq, kernel,
      busy_given, next_semid, ext_left, hist>>

\* the command surface and the devices the kernel holds
VARIABLES
    devices,       \* the kernel's devices: name and uuid ("" for none)
    request,       \* the last request built: the function, its arguments,
                   \* the header's name, uuid and flags, and data_in
    info,          \* what the function returned: Err, or the DeviceInfo
    calls          \* number of functions called so far

surface_vars == <<devices, request, info, calls>>

vars == <<transport_vars, codec_vars, surface_vars>>

NoPair == [cookie |-> 0, semid |-> -1]

\* UdevSync { cookie: 0, semid: -1 }
Inactive == [cookie |-> EventNr({}, 0), semid |-> -1]

NoPayload == [tag |-> 0, lo |-> u32(0), hi |-> u32(0)]

NoResult == [kind |-> "none", errno |-> "none", seq |-> 0, payload |-> NoPayload]

NoOp == [kind |-> "none", error |-> NoResult]

NoBuf == [len |-> u32(0), flags |-> {}, event_nr |-> EventNr({}, 0),
          data_start |-> u32(0), data_size |-> u32(0), data |-> 0]

Init ==
    /\ devices = {}
    /\ request = [fn |-> "none", args |-> <<>>,
                  hdr |-> [name |-> "", uuid |-> "", flags |-> {}],
                  data_in |-> ""]
    /\ info = [kind |-> "none", name |-> "", uuid |-> ""]
    /\ calls = 0
    /\ cpc = "none"
    /\ targets = <<>>
    /\ data_in = [target_count |-> u32(0), bytes |-> <<>>]
    /\ data_out = [shape |-> "none", target_count |-> u32(0), minor |-> 0,
                   bytes |-> <<>>]
    /\ decoded = [kind |-> "none", value |-> <<>>, oob |-> FALSE]
    /\ kernel \in KernelPlans
    /\ pc = "do_ioctl"
    /\ ioctl \in SurfaceCmds
    /\ \E f \in OptionFlags(ioctl), i \in Inputs :
          /\ FullCall(ioctl, f) \/ (kernel \in SurfacePlans /\ i.in_len = 0)
          /\ in_len = i.in_len
          /\ hdr = to_ioctl_hdr(f, i.udev, Allowable(ioctl))
          /\ hist = [ioctls |-> 0, issued |-> 0, begun |-> 0, ended |-> 0,
                     cancelled |-> 0, interfered |-> FALSE, event_nrs |-> {},
                     udev_decs |-> 0, end_result |-> "none",
                     waited |-> FALSE, failed_at |-> "none", retried |-> {},
                     sets |-> {}, semgets |-> 0, semget_last |-> "none",
                     end_failed |-> {}, end_rmids |-> 0, end_decs |-> 0,
                     options |-> [flags |-> f, udev_flags |-> i.udev]]
          /\ \E n \in (IF FullCall(ioctl, f) THEN ExtSets(kernel) ELSE {0}) :
                /\ sems = {[id |-> k, key |-> k + 1, val |-> 2,
                            owner |-> "ext"] : k \in 0..(n - 1)}
                /\ next_semid = n
          /\ ext_left \in (IF FullCall(ioctl, f) THEN ExtSteps(kernel)
                           ELSE {0})
    /\ delays = IOCTL_RETRIES
    /\ tries = 1
    /\ gen_delays = 0
    /\ cookie_pair = NoPair
    /\ sync = Inactive
    /\ v = NoBuf
    /\ grown = 0
    /\ op_result = NoOp
    /\ uevent_generated = FALSE
    /\ result = NoResult
    /\ udevq = {}
    /\ busy_given = 0

(***************************************************************************)
(* The kernel's SysV semaphore sets: records [id, key, val, owner].  The   *)
(* key is the nonce (the DM_COOKIE_MAGIC tag in the high half is the same  *)
(* for every key); owner tells the sets this call created ("call") from    *)
(* those of other processes ("ext").                                       *)
(***************************************************************************)
SemExists(id) == \E s \in sems : s.id = id

SemOf(id) == CHOOSE s \in sems : s.id = id

KeyExists(key) == \E s \in sems : s.key = key

SetVal(id, n) ==
    {IF s.id = id THEN [s EXCEPT !.val = n] ELSE s : s \in sems}

\* mutant: semget without IPC_EXCL does not refuse an existing key
semget_no_excl(key) ==
    IF Cardinality(sems) >= MaxSems THEN "ENOSPC" ELSE "OK"

\* semget(key, 1, COOKIE_MODE | IPC_CREAT | IPC_EXCL)
semget(key) ==
    IF KeyExists(key) THEN "EEXIST"
    ELSE IF Cardinality(sems) >= MaxSems THEN "ENOSPC"
    ELSE "OK"

\* mutant: the set is not removed
notify_sem_destroy_noop(id) == [sems |-> sems, failed |-> FALSE]

\* semctl(semid, 0, IPC_RMID): the sets left, and whether the call failed
notify_sem_destroy(id) ==
    [sems |-> {s \in sems : s.id # id}, failed |-> ~SemExists(id)]

\* semop(-1, IPC_NOWAIT): fails on a missing set and on value 0
notify_sem_dec(id) ==
    IF SemExists(id) /\ SemOf(id).val > 0
    THEN [sems |-> SetVal(id, SemOf(id).val - 1), failed |-> FALSE]
    ELSE [sems |-> sems, failed |-> TRUE]

\* mutant: the semaphore is not incremented
notify_sem_inc_noop(id) == [sems |-> sems, failed |-> ~SemExists(id)]

\* semop(+1)
notify_sem_inc(id) ==
    IF SemExists(id)
    THEN [sems |-> SetVal(id, SemOf(id).val + 1), failed |-> FALSE]
    ELSE [sems |-> sems, failed |-> TRUE]

\* mutant: the wait returns at once
wait_for_zero_nowait(id) == TRUE

\* semop(sem_op: 0, sem_flg: 0) returns once the value is zero
wait_for_zero(id) == SemOf(id).val = 0

\* mutant: every transaction counts as active
is_active_always(t) == TRUE

\* self.cookie != 0 && self.semid != -1
is_active(t) == t.cookie # EventNr({}, 0) /\ t.semid # -1

(***************************************************************************)
(* DM::ioctl: the retry loop around do_ioctl.                              *)
(***************************************************************************)
UdevSyncError ==
    [kind |-> "UdevSync", errno |-> "none", seq |-> 0, payload |-> NoPayload]

\* Error::Ioctl(header of the failed syscall, errno); seq tells which syscall
IoctlError(e, n) ==
    [kind |-> "Ioctl", errno |-> e, seq |-> n, payload |-> NoPayload]

TooLarge == [kind |-> "IoctlResultTooLarge", errno |-> "none", seq |-> 0,
             payload |-> NoPayload]

\* mutant: the first Retry already ends the call
retry_with_index_never(op) ==
    /\ pc' = "done"
    /\ result' = op.error
    /\ UNCHANGED <<delays, tries>>

\* mutant: the last delay of the iterator is not used
retry_with_index_short(op) ==
    IF op.kind = "Retry" /\ delays > 1
    THEN /\ pc' = "do_ioctl"
         /\ delays' = delays - 1
         /\ tries' = tries + 1
         /\ result' = result
    ELSE /\ pc' = "done"
         /\ result' = op.error
         /\ UNCHANGED <<delays, tries>>

\* mutant: running out of delays is reported as RetryError::Internal
retry_with_index_internal(op) ==
    IF op.kind = "Retry" /\ delays > 0
    THEN /\ pc' = "do_ioctl"
         /\ delays' = delays - 1
         /\ tries' = tries + 1
         /\ result' = result
    ELSE /\ pc' = "done"
         /\ result' = IF op.kind = "Retry" THEN UdevSyncError ELSE op.error
         /\ UNCHANGED <<delays, tries>>

\* retry_with_index: what follows a do_ioctl that returned `op`
retry_with_index(op) ==
    IF op.kind = "Retry" /\ delays > 0
    THEN /\ pc' = "do_ioctl"
         /\ delays' = delays - 1
         /\ tries' = tries + 1
         /\ result' = result
    ELSE /\ pc' = "done"
         /\ result' = op.error
         /\ UNCHANGED <<delays, tries>>

\* mutant: the DM_SUSPEND guard of the match arm is missing
primary_source_unguarded(cmd, flags) ==
    cmd \in {"DM_DEV_REMOVE_CMD", "DM_DEV_RENAME_CMD", "DM_DEV_SUSPEND_CMD"}

\* the udev flags do_ioctl passes to begin hold DM_UDEV_PRIMARY_SOURCE_FLAG
primary_source(cmd, flags) ==
    /\ cmd \in {"DM_DEV_REMOVE_CMD", "DM_DEV_RENAME_CMD", "DM_DEV_SUSPEND_CMD"}
    /\ "DM_SUSPEND_FLAG" \notin flags

\* hdr after the cookie is written into the low half of event_nr
stamp(h, t) ==
    [h EXCEPT !.event_nr = EventNr(h.event_nr.hi \cup t.cookie.hi, t.cookie.lo),
              !.data_size = U32Max2(u32(MIN_BUF_SIZE),
                                    u32(DM_IOCTL_STRUCT_LEN + in_len))]

\* the buffer v built from the stamped header and in_data
build(h) ==
    [len |-> h.data_size, flags |-> h.flags, event_nr |-> h.event_nr,
     data_start |-> h.data_start, data_size |-> h.data_size, data |-> 0]

\* begin returned Ok(t): the rest of do_ioctl up to the first syscall
begun(t) ==
    /\ sync' = t
    /\ hdr' = stamp(hdr, t)
    /\ v' = build(stamp(hdr, t))
    /\ grown' = 0
    /\ pc' = "nix_ioctl"

\* mutant: a failed begin makes do_ioctl return OperationResult::Retry
begin_failed_retry ==
    /\ retry_with_index([kind |-> "Retry", error |-> UdevSyncError])
    /\ UNCHANGED <<hdr, v, grown, sync>>

\* begin returned Err: do_ioctl returns OperationResult::Err
begin_failed ==
    /\ retry_with_index([kind |-> "Err", error |-> UdevSyncError])
    /\ UNCHANGED <<hdr, v, grown, sync>>

\* do_ioctl up to UdevSync::begin; an inactive transaction needs no syscall
do_ioctl ==
    /\ pc = "do_ioctl"
    /\ IF primary_source(ioctl, hdr.flags)
       THEN /\ pc' = "gen_cookie"
            /\ gen_delays' = COOKIE_RETRIES
            /\ UNCHANGED <<hdr, v, grown, sync>>
       ELSE /\ begun(Inactive)
            /\ UNCHANGED gen_delays
    /\ hist' = [hist EXCEPT !.issued = 0, !.event_nrs = {}, !.sets = {},
                            !.semgets = 0, !.semget_last = "none"]
    /\ UNCHANGED <<codec_vars, surface_vars, ioctl, in_len, delays, tries, cookie_pair, op_result,
                   uevent_generated, result, sems, udevq, kernel, busy_given,
                   next_semid, ext_left>>

\* mutant: the last delay of NoDelay.take(4) is not used
gen_cookie_retry_short(err) == err = "EEXIST" /\ gen_delays > 1

\* retry(NoDelay.take(4), gen_cookie): gen_cookie is run again when it
\* returned OperationResult::Retry (EEXIST) and the iterator has a delay left
gen_cookie_retry(err) == err = "EEXIST" /\ gen_delays > 0

\* one gen_cookie under retry(NoDelay.take(4), gen_cookie)
gen_cookie ==
    /\ pc = "gen_cookie"
    /\ \E base_cookie \in 1..MaxNonce :
        /\ hist' = [hist EXCEPT
                       !.semgets = @ + 1,
                       !.semget_last = semget(base_cookie),
                       !.failed_at =
                          IF /\ semget(base_cookie) # "OK"
                             /\ ~gen_cookie_retry(semget(base_cookie))
                          THEN "semget" ELSE @]
        /\
          CASE semget(base_cookie) = "OK" ->
                  /\ sems' = sems \cup {[id |-> next_semid, key |-> base_cookie,
                                         val |-> 0, owner |-> "call"]}
                  /\ next_semid' = next_semid + 1
                  /\ cookie_pair' = [cookie |-> base_cookie, semid |-> next_semid]
                  /\ pc' = "SETVAL"
                  /\ UNCHANGED <<gen_delays, delays, tries, result>>
            [] gen_cookie_retry(semget(base_cookie)) ->
                  /\ gen_delays' = gen_delays - 1
                  /\ UNCHANGED <<pc, sems, next_semid, cookie_pair, delays,
                                 tries, result>>
            [] OTHER ->
                  /\ retry_with_index([kind |-> "Err", error |-> UdevSyncError])
                  /\ UNCHANGED <<sems, next_semid, cookie_pair, gen_delays>>
    /\ UNCHANGED <<codec_vars, surface_vars, ioctl, in_len, hdr, sync, v, grown, op_result,
                   uevent_generated, udevq, kernel, busy_given, ext_left>>

\* notify_sem_create: semctl(semid, 0, SETVAL, 1)
sem_setval ==
    /\ pc = "SETVAL"
    /\ IF SemExists(cookie_pair.semid)
       THEN /\ sems' = SetVal(cookie_pair.semid, 1)
            /\ pc' = "GETVAL"
       ELSE /\ pc' = "create_destroy"
            /\ UNCHANGED sems
    /\ hist' = [hist EXCEPT !.failed_at =
                   IF pc' = "create_destroy" THEN "SETVAL" ELSE @]
    /\ UNCHANGED <<codec_vars, surface_vars, ioctl, in_len, hdr, delays, tries, gen_delays, cookie_pair,
                   sync, v, grown, op_result, uevent_generated, result, udevq,
                   kernel, busy_given, next_semid, ext_left>>

\* notify_sem_create: notify_sem_destroy after SETVAL failed, then Err
create_destroy ==
    /\ pc = "create_destroy"
    /\ sems' = notify_sem_destroy(cookie_pair.semid).sems
    /\ begin_failed
    /\ UNCHANGED <<codec_vars, surface_vars, ioctl, in_len, gen_delays, cookie_pair, op_result,
                   uevent_generated, udevq, kernel, busy_given, next_semid,
                   ext_left, hist>>

\* notify_sem_create: semctl(semid, 0, GETVAL) must read back 1
sem_getval ==
    /\ pc = "GETVAL"
    /\ IF SemExists(cookie_pair.semid) /\ SemOf(cookie_pair.semid).val = 1
       THEN /\ pc' = "notify_sem_inc"
            /\ UNCHANGED <<hdr, v, grown, sync, delays, tries, result>>
       ELSE begin_failed
    /\ hist' = [hist EXCEPT !.failed_at =
                   IF pc' = "done" THEN "GETVAL" ELSE @]
    /\ UNCHANGED <<codec_vars, surface_vars, ioctl, in_len, gen_delays, cookie_pair, op_result,
                   uevent_generated, sems, udevq, kernel, busy_given,
                   next_semid, ext_left>>

\* begin: notify_sem_inc, then Ok(UdevSync { cookie, semid })
begin_inc ==
    /\ pc = "notify_sem_inc"
    /\ LET r == notify_sem_inc(cookie_pair.semid) IN
       /\ sems' = r.sems
       /\ IF r.failed
          THEN /\ pc' = "begin_destroy"
               /\ hist' = [hist EXCEPT !.failed_at = "notify_sem_inc"]
               /\ UNCHANGED <<hdr, v, grown, sync>>
          ELSE /\ begun([cookie |-> EventNr({"DM_UDEV_PRIMARY_SOURCE_FLAG"},
                                            cookie_pair.cookie),
                         semid |-> cookie_pair.semid])
               /\ hist' = [hist EXCEPT !.begun = @ + 1]
    /\ UNCHANGED <<codec_vars, surface_vars, ioctl, in_len, delays, tries, gen_delays, cookie_pair,
                   op_result, uevent_generated, result, udevq, kernel,
                   busy_given, next_semid, ext_left>>

\* begin: notify_sem_destroy after notify_sem_inc failed, then Err
begin_destroy ==
    /\ pc = "begin_destroy"
    /\ sems' = notify_sem_destroy(cookie_pair.semid).sems
    /\ begin_failed
    /\ UNCHANGED <<codec_vars, surface_vars, ioctl, in_len, gen_delays, cookie_pair, op_result,
                   uevent_generated, udevq, kernel, busy_given, next_semid,
                   ext_left, hist>>

(***************************************************************************)
(* The ioctl syscall and the loop around it.                               *)
(***************************************************************************)
\* the header the kernel copies back on success
response(buf, full, seq) ==
    [buf EXCEPT
       !.flags = (buf.flags \ {"DM_BUFFER_FULL_FLAG", "DM_UEVENT_GENERATED_FLAG"})
                 \cup (IF full THEN {"DM_BUFFER_FULL_FLAG"} ELSE {})
                 \cup (IF ~full /\ kernel.uevent
                       THEN {"DM_UEVENT_GENERATED_FLAG"} ELSE {}),
       !.event_nr = IF kernel.evnr < 0 THEN buf.event_nr
                    ELSE EventNr({}, kernel.evnr),
       !.data_size = IF full THEN buf.data_size ELSE kernel.thresh,
       !.data = seq]

\* mutant: the slice ends at data_size whatever data_start is
payload_to_data_size(buf) ==
    [tag |-> buf.data, lo |-> buf.data_start, hi |-> buf.data_size]

\* v[hdr.data_start .. max(hdr.data_start, hdr.data_size)]
payload(buf) ==
    [tag |-> buf.data, lo |-> buf.data_start,
     hi |-> U32Max2(buf.data_start, buf.data_size)]

\* hdr_slc.clone_from_slice(&v[..hdr.data_start])
copy_back(h, buf) ==
    [h EXCEPT !.flags = buf.flags, !.event_nr = buf.event_nr,
              !.data_start = buf.data_start, !.data_size = buf.data_size]

\* mutant: EBUSY is retried for every command
on_errno_any_cmd(err, cmd) == IF err = "EBUSY" THEN "Retry" ELSE "Err"

\* a failed syscall: Retry for EBUSY on device removal, Err otherwise
on_errno(err, cmd) ==
    IF err = "EBUSY" /\ cmd = "DM_DEV_REMOVE_CMD" THEN "Retry" ELSE "Err"

\* one pass of the loop of do_ioctl: the syscall and what follows it up to
\* the next syscall
nix_ioctl ==
    /\ pc = "nix_ioctl"
    /\ LET out == KernelOutcome(kernel, busy_given, grown, v.len)
           seq == hist.ioctls + 1
           h1  == [hist EXCEPT !.ioctls = seq, !.issued = @ + 1,
                               !.event_nrs = @ \cup {v.event_nr},
                               !.sets = @ \cup {sync.semid}]
       IN
       /\ hist' = h1
       /\ CASE out \notin {"OK", "FULL"} ->
                 /\ busy_given' = IF busy_given < kernel.busy
                                  THEN busy_given + 1 ELSE busy_given
                 /\ op_result' = [kind |-> on_errno(out, ioctl),
                                  error |-> IoctlError(out, seq)]
                 /\ pc' = "cancel"
                 /\ UNCHANGED <<v, grown, hdr, uevent_generated, udevq, delays,
                                tries, result>>
            [] out = "FULL" /\ v.len = U32_MAX ->
                 /\ v' = response(v, TRUE, seq)
                 /\ retry_with_index([kind |-> "Err", error |-> TooLarge])
                 /\ UNCHANGED <<busy_given, op_result, grown, hdr,
                                uevent_generated, udevq>>
            [] out = "FULL" /\ v.len # U32_MAX ->
                 /\ v' = [response(v, TRUE, seq) EXCEPT
                            !.len = saturating_mul_2(v.len),
                            !.data_size = saturating_mul_2(v.len)]
                 /\ grown' = grown + 1
                 /\ UNCHANGED <<pc, busy_given, op_result, hdr,
                                uevent_generated, udevq, delays, tries, result>>
            [] out = "OK" ->
                 /\ v' = response(v, FALSE, seq)
                 /\ hdr' = copy_back(hdr, response(v, FALSE, seq))
                 /\ uevent_generated' = kernel.uevent
                 /\ udevq' = IF kernel.uevent /\ v.event_nr.lo # 0
                             THEN udevq \cup {v.event_nr.lo} ELSE udevq
                 /\ pc' = "end"
                 /\ UNCHANGED <<busy_given, op_result, grown, delays, tries,
                                result>>
    /\ UNCHANGED <<codec_vars, surface_vars, ioctl, in_len, gen_delays, cookie_pair, sync, sems, kernel,
                   next_semid, ext_left>>

\* mutant: cancel waits for the semaphore to reach zero before removing it
cancel_after_wait ==
    /\ pc = "cancel"
    /\ is_active(sync) /\ SemExists(sync.semid) => wait_for_zero(sync.semid)
    /\ IF is_active(sync)
       THEN sems' = notify_sem_destroy(sync.semid).sems
       ELSE UNCHANGED sems
    /\ retry_with_index(op_result)
    /\ hist' = [hist EXCEPT
                   !.cancelled = IF is_active(sync) THEN @ + 1 ELSE @,
                   !.retried = IF pc' = "do_ioctl"
                               THEN @ \cup {op_result.error.errno} ELSE @]
    /\ op_result' = NoOp
    /\ UNCHANGED <<codec_vars, surface_vars, ioctl, in_len, hdr, gen_delays, cookie_pair, sync, v, grown,
                   uevent_generated, udevq, kernel, busy_given, next_semid,
                   ext_left>>

\* sync.cancel() on a failed syscall, then the Retry / Err of do_ioctl
cancel ==
    /\ pc = "cancel"
    /\ IF is_active(sync)
       THEN sems' = notify_sem_destroy(sync.semid).sems
       ELSE UNCHANGED sems
    /\ retry_with_index(op_result)
    /\ hist' = [hist EXCEPT
                   !.cancelled = IF is_active(sync) THEN @ + 1 ELSE @,
                   !.retried = IF pc' = "do_ioctl"
                               THEN @ \cup {op_result.error.errno} ELSE @]
    /\ op_result' = NoOp
    /\ UNCHANGED <<codec_vars, surface_vars, ioctl, in_len, hdr, gen_delays, cookie_pair, sync, v, grown,
                   uevent_generated, udevq, kernel, busy_given, next_semid,
                   ext_left>>

(***************************************************************************)
(* UdevSync::end.  do_ioctl returns the payload whatever end returns.      *)
(***************************************************************************)
\* mutant: an error of end becomes the result of do_ioctl
end_returns_error(r, h) ==
    /\ pc' = "done"
    /\ result' = IF r = "Err" THEN UdevSyncError
                 ELSE [kind |-> "Ok", errno |-> "none", seq |-> 0,
                       payload |-> payload(v)]
    /\ hist' = [h EXCEPT !.end_result = r,
                         !.ended = IF is_active(sync) THEN @ + 1 ELSE @]

\* do_ioctl after sync.end returned r: the payload is returned either way
end_returns_with(r, h) ==
    /\ pc' = "done"
    /\ result' = [kind |-> "Ok", errno |-> "none", seq |-> 0,
                  payload |-> payload(v)]
    /\ hist' = [h EXCEPT !.end_result = r,
                         !.ended = IF is_active(sync) THEN @ + 1 ELSE @]

end_returns(r) == end_returns_with(r, hist)

\* the history after a notify_sem_destroy made inside end
rmid_noted(failed) ==
    [hist EXCEPT !.end_rmids = @ + 1,
                 !.end_failed = IF failed THEN @ \cup {"notify_sem_destroy"}
                                ELSE @]

end_unchanged ==
    UNCHANGED <<codec_vars, surface_vars, ioctl, in_len, hdr, delays, tries, gen_delays, cookie_pair,
                sync, v, grown, op_result, uevent_generated, udevq, kernel,
                busy_given, next_semid, ext_left>>

\* end on an inactive transaction
end_inactive ==
    /\ pc = "end"
    /\ ~is_active(sync)
    /\ end_returns("Ok")
    /\ UNCHANGED sems
    /\ end_unchanged

\* mutant: end skips the compensating decrement
end_no_compensation ==
    /\ pc = "end"
    /\ is_active(sync)
    /\ ~uevent_generated
    /\ pc' = "notify_sem_wait"
    /\ UNCHANGED <<sems, result, hist>>
    /\ end_unchanged

\* end, no uevent generated: the compensating notify_sem_dec
end_compensate ==
    /\ pc = "end"
    /\ is_active(sync)
    /\ ~uevent_generated
    /\ LET r == notify_sem_dec(sync.semid) IN
       /\ sems' = r.sems
       /\ pc' = IF r.failed THEN "end_dec_destroy" ELSE "notify_sem_wait"
       /\ hist' = [hist EXCEPT
                      !.end_decs = IF r.failed THEN @ ELSE @ + 1,
                      !.failed_at = IF r.failed THEN "end_dec" ELSE @,
                      !.end_failed = IF r.failed
                                     THEN @ \cup {"notify_sem_dec"} ELSE @]
    /\ UNCHANGED result
    /\ end_unchanged

\* end: notify_sem_destroy after the compensating decrement failed, then Err
end_dec_destroy ==
    /\ pc = "end_dec_destroy"
    /\ sems' = notify_sem_destroy(sync.semid).sems
    /\ end_returns_with("Err", rmid_noted(notify_sem_destroy(sync.semid).failed))
    /\ end_unchanged

\* notify_sem_wait: the caller's own notify_sem_dec
wait_dec ==
    /\ \/ pc = "end" /\ is_active(sync) /\ uevent_generated
       \/ pc = "notify_sem_wait"
    /\ LET r == notify_sem_dec(sync.semid) IN
       /\ sems' = r.sems
       /\ pc' = IF r.failed THEN "wait_destroy" ELSE "wait_zero"
       /\ hist' = [hist EXCEPT
                      !.end_decs = IF r.failed THEN @ ELSE @ + 1,
                      !.failed_at = IF r.failed THEN "wait_dec" ELSE @,
                      !.end_failed = IF r.failed
                                     THEN @ \cup {"notify_sem_wait"} ELSE @]
    /\ UNCHANGED result
    /\ end_unchanged

\* notify_sem_wait: notify_sem_destroy after its decrement failed; the wait
\* is entered all the same
wait_destroy ==
    /\ pc = "wait_destroy"
    /\ sems' = notify_sem_destroy(sync.semid).sems
    /\ pc' = "wait_zero"
    /\ hist' = rmid_noted(notify_sem_destroy(sync.semid).failed)
    /\ UNCHANGED result
    /\ end_unchanged

\* notify_sem_wait: semop(0) blocks until the value is zero; it fails when
\* the set is gone (EINVAL, EIDRM) and, while it blocks, when a signal is
\* delivered (EINTR); end then returns the error without a destroy
wait_zero ==
    /\ pc = "wait_zero"
    /\ \/ /\ ~SemExists(sync.semid)
          /\ end_returns_with("Err", [hist EXCEPT !.end_failed =
                                        @ \cup {"notify_sem_wait"}])
          /\ UNCHANGED ext_left
       \/ /\ SemExists(sync.semid)
          /\ wait_for_zero(sync.semid)
          /\ pc' = "end_destroy"
          /\ hist' = [hist EXCEPT !.waited = TRUE]
          /\ UNCHANGED <<result, ext_left>>
       \/ /\ SemExists(sync.semid)
          /\ ~wait_for_zero(sync.semid)
          /\ ext_left > 0
          /\ ext_left' = ext_left - 1
          /\ end_returns_with("Err", [hist EXCEPT
                                        !.interfered = TRUE,
                                        !.failed_at = "EINTR",
                                        !.end_failed =
                                            @ \cup {"notify_sem_wait"}])
    /\ UNCHANGED <<codec_vars, surface_vars, sems, ioctl, in_len, hdr, delays, tries, gen_delays,
                   cookie_pair, sync, v, grown, op_result, uevent_generated,
                   udevq, kernel, busy_given, next_semid>>

\* end: the final notify_sem_destroy; its failure is only logged
end_destroy ==
    /\ pc = "end_destroy"
    /\ sems' = notify_sem_destroy(sync.semid).sems
    /\ end_returns_with("Ok", rmid_noted(notify_sem_destroy(sync.semid).failed))
    /\ end_unchanged

(***************************************************************************)
(* The other processes.                                                    *)
(***************************************************************************)
env_unchanged ==
    UNCHANGED <<codec_vars, surface_vars, pc, ioctl, in_len, hdr, delays, tries, gen_delays, cookie_pair,
                sync, v, grown, op_result, uevent_generated, result, kernel,
                busy_given>>

\* the udev rule run for a uevent: it decrements the semaphore whose key is
\* the cookie of the uevent (as notify_sem_dec does in the tests)
udev_complete ==
    /\ \E c \in udevq :
         /\ udevq' = udevq \ {c}
         /\ IF \E s \in sems : s.key = c /\ s.val > 0
            THEN LET s == CHOOSE t \in sems : t.key = c IN
                 /\ sems' = SetVal(s.id, s.val - 1)
                 /\ hist' = [hist EXCEPT !.udev_decs =
                                IF s.owner = "call" THEN @ + 1 ELSE @]
            ELSE UNCHANGED <<sems, hist>>
    /\ UNCHANGED <<next_semid, ext_left>>
    /\ env_unchanged

\* another process creates a semaphore set under a key of the same family
ext_create ==
    /\ pc # "done"
    /\ ext_left > 0
    /\ \E key \in 1..MaxNonce :
         /\ semget(key) = "OK"
         /\ sems' = sems \cup {[id |-> next_semid, key |-> key, val |-> 0,
                                owner |-> "ext"]}
    /\ next_semid' = next_semid + 1
    /\ ext_left' = ext_left - 1
    /\ UNCHANGED <<udevq, hist>>
    /\ env_unchanged

\* another process removes a semaphore set
ext_remove ==
    /\ pc # "done"
    /\ ext_left > 0
    /\ \E s \in sems :
         /\ sems' = sems \ {s}
         /\ hist' = [hist EXCEPT !.interfered = @ \/ s.owner = "call"]
    /\ ext_left' = ext_left - 1
    /\ UNCHANGED <<udevq, next_semid>>
    /\ env_unchanged

\* another process decrements a semaphore of the call (a decrement of any
\* other set is not seen by the call)
ext_dec ==
    /\ pc # "done"
    /\ ext_left > 0
    /\ \E s \in sems :
         /\ s.owner = "call"
         /\ s.val > 0
         /\ sems' = SetVal(s.id, s.val - 1)
         /\ hist' = [hist EXCEPT !.interfered = TRUE]
    /\ ext_left' = ext_left - 1
    /\ UNCHANGED <<udevq, next_semid>>
    /\ env_unchanged

Caller ==
    \/ do_ioctl \/ gen_cookie \/ sem_setval \/ create_destroy \/ sem_getval
    \/ begin_inc \/ begin_destroy \/ nix_ioctl \/ cancel \/ end_inactive
    \/ end_compensate \/ end_dec_destroy \/ wait_dec \/ wait_destroy
    \/ wait_zero \/ end_destroy

Next ==
    \/ do_ioctl \/ gen_cookie \/ sem_setval \/ create_destroy \/ sem_getval
    \/ begin_inc \/ begin_destroy \/ nix_ioctl \/ cancel \/ end_inactive
    \/ end_compensate \/ end_dec_destroy \/ wait_dec \/ wait_destroy
    \/ wait_zero \/ end_destroy
    \/ udev_complete \/ ext_create \/ ext_remove \/ ext_dec

Spec == Init /\ [][Next]_vars

\* the caller is a running thread and the udev daemon runs its rules
FairSpec == Spec /\ WF_vars(Caller) /\ WF_vars(udev_complete)

(***************************************************************************)
(* Properties.                                                             *)
(***************************************************************************)
\* the semaphore set of the transaction of the current attempt is allocated
SyncSetAllocated == is_active(sync) /\ SemExists(sync.semid)

\* begin succeeded in every attempt of the call so far
BeginNeverFailed ==
    hist.failed_at \notin {"semget", "SETVAL", "GETVAL", "notify_sem_inc"}

\* C1: when DM::ioctl returns, every transaction begun by the call was ended
\* or cancelled exactly once and its semaphore set is no longer allocated,
\* whatever the kernel answered to the ioctl syscalls.
C1_NoLeakOnReturn ==
    pc = "done" =>
        /\ hist.begun = hist.ended + hist.cancelled
        /\ ~SyncSetAllocated

\* C2: with DM_UEVENT_GENERATED set in the response and nobody but the udev
\* rule acting on the semaphore, end does not get past its wait, destroy the
\* set or return before the udev rule made its decrement, and the value is
\* zero when end destroys the set.
C2_EndWaitsForUdev ==
    (is_active(sync) /\ uevent_generated /\ ~hist.interfered) =>
        /\ (pc = "end_destroy" \/ hist.end_result # "none") =>
               hist.udev_decs = 1
        /\ pc = "end_destroy" =>
               SemExists(sync.semid) /\ SemOf(sync.semid).val = 0

\* C2 witness: end returned Ok after the udev rule decremented the semaphore
C2_Witness ==
    /\ pc = "done"
    /\ is_active(sync) /\ uevent_generated /\ ~hist.interfered
    /\ hist.end_result = "Ok" /\ hist.udev_decs = 1
    /\ ~SemExists(sync.semid)

\* C2 witness of the interleaving in which the caller arrives first: it is
\* blocked in the wait with the udev rule still to run
C2_CallerBlocked ==
    /\ pc = "wait_zero"
    /\ uevent_generated /\ ~hist.interfered
    /\ SemExists(sync.semid) /\ SemOf(sync.semid).val = 1
    /\ sync.cookie.lo \in udevq

\* no other process has touched the call's semaphore, and none will
Quiet == ext_left = 0 /\ ~hist.interfered

\* C3: end(uevent_generated = false) on an active transaction, with no other
\* process touching the semaphore, always comes to return Ok with no
\* semaphore set of the call left allocated.
C3_EndNoUeventTerminates ==
    (pc = "end" /\ is_active(sync) /\ ~uevent_generated /\ Quiet)
        ~> (/\ pc = "done"
            /\ hist.end_result = "Ok"
            /\ \A s \in sems : s.owner # "call")

\* C3 witness: such an end has returned Ok, the set is gone
C3_Witness ==
    /\ pc = "done"
    /\ is_active(sync) /\ ~uevent_generated /\ Quiet
    /\ hist.end_result = "Ok" /\ hist.udev_decs = 0
    /\ \A s \in sems : s.owner # "call"

\* C4: cancel needs nothing of the semaphore's value to run (it never waits),
\* and once it has run the semaphore set of the transaction is not allocated.
C4_CancelRemovesWithoutWaiting ==
    /\ [](pc = "cancel" => ENABLED cancel)
    /\ [][cancel => ~SemExists(sync.semid)']_vars

\* C4 witness: a begin with the primary-source flag was followed by cancel
C4_Witness ==
    /\ pc = "done"
    /\ is_active(sync) /\ hist.begun = 1 /\ hist.cancelled = 1
    /\ hist.ended = 0
    /\ \A s \in sems : s.owner # "call"

\* the kernel plan answers the first issue after the EBUSY answers with
\* success
SucceedsAfterBusy ==
    kernel.final = "OK" /\ U32Leq(kernel.thresh, u32(MIN_BUF_SIZE))

\* C5: device removal, EBUSY on the first K attempts, K < IOCTL_RETRIES, and
\* success on attempt K + 1: DM::ioctl returns Ok after exactly K + 1 ioctl
\* attempts (begin succeeding in each).
C5_BusyRetrySucceeds ==
    (/\ pc = "done"
     /\ ioctl = "DM_DEV_REMOVE_CMD"
     /\ kernel.busy < IOCTL_RETRIES
     /\ SucceedsAfterBusy
     /\ BeginNeverFailed)
        => /\ result.kind = "Ok"
           /\ tries = kernel.busy + 1
           /\ hist.ioctls = kernel.busy + 1

\* C5 witness: success on the attempt after IOCTL_RETRIES - 1 EBUSY answers
C5_Witness ==
    /\ pc = "done"
    /\ ioctl = "DM_DEV_REMOVE_CMD"
    /\ kernel.busy = IOCTL_RETRIES - 1
    /\ busy_given = IOCTL_RETRIES - 1
    /\ result.kind = "Ok"
    /\ hist.ioctls = IOCTL_RETRIES

\* the kernel plan answers at least n attempts with EBUSY on the first issue
BusyAtLeast(n) ==
    kernel.busy >= n \/ (kernel.final = "EBUSY" /\ kernel.errGrow = 0)

\* C6 as stated: device removal and EBUSY on K >= IOCTL_RETRIES consecutive
\* attempts: DM::ioctl fails with the EBUSY Ioctl error of the last attempt
\* after exactly IOCTL_RETRIES ioctl attempts.
C6_Original ==
    (/\ pc = "done"
     /\ ioctl = "DM_DEV_REMOVE_CMD"
     /\ BusyAtLeast(IOCTL_RETRIES)
     /\ BeginNeverFailed)
        => /\ result.kind = "Ioctl" /\ result.errno = "EBUSY"
           /\ hist.ioctls = IOCTL_RETRIES
           /\ result.seq = hist.ioctls

\* C6 amended: device removal and EBUSY on K >= IOCTL_RETRIES + 1 consecutive
\* attempts: DM::ioctl fails with the EBUSY Ioctl error of the last attempt
\* after exactly IOCTL_RETRIES + 1 ioctl attempts (the first attempt and
\* IOCTL_RETRIES retries); no further attempt is issued.
C6_BusyRetryBounded ==
    (/\ pc = "done"
     /\ ioctl = "DM_DEV_REMOVE_CMD"
     /\ BusyAtLeast(IOCTL_RETRIES + 1)
     /\ BeginNeverFailed)
        => /\ result.kind = "Ioctl" /\ result.errno = "EBUSY"
           /\ tries = IOCTL_RETRIES + 1
           /\ hist.ioctls = IOCTL_RETRIES + 1
           /\ result.seq = hist.ioctls

\* C6 witness: the call gave up after IOCTL_RETRIES + 1 EBUSY answers
C6_Witness ==
    /\ pc = "done"
    /\ ioctl = "DM_DEV_REMOVE_CMD"
    /\ kernel.busy > IOCTL_RETRIES
    /\ busy_given = IOCTL_RETRIES + 1
    /\ result.kind = "Ioctl" /\ result.errno = "EBUSY"

\* C7: only EBUSY on device removal is ever retried; a syscall failure with
\* any other (command, errno) pair ends the call: it is the last syscall of
\* the call and no attempt follows it.
C7_OnlyBusyRemoveRetried ==
    /\ hist.retried \subseteq {"EBUSY"}
    /\ hist.retried # {} => ioctl = "DM_DEV_REMOVE_CMD"
    /\ (/\ pc = "done"
        /\ result.kind = "Ioctl"
        /\ ~(result.errno = "EBUSY" /\ ioctl = "DM_DEV_REMOVE_CMD"))
          => /\ result.seq = hist.ioctls
             /\ tries = (IF ioctl = "DM_DEV_REMOVE_CMD" THEN busy_given ELSE 0) + 1

\* C7 witness: EBUSY on a rename ended the call after one syscall
C7_Witness ==
    /\ pc = "done"
    /\ ioctl = "DM_DEV_RENAME_CMD"
    /\ result.kind = "Ioctl" /\ result.errno = "EBUSY"
    /\ tries = 1 /\ hist.ioctls = 1

\* C8: after every failed ioctl syscall of the call, whether do_ioctl
\* returned Retry (the next attempt is about to start) or Err (DM::ioctl
\* returned the Ioctl error), every transaction of the call was cancelled and
\* none ended: no semaphore set of the call is allocated, and no wait on one
\* was made.
C8_FailureCancels ==
    ((pc = "done" /\ result.kind = "Ioctl") \/ (pc = "do_ioctl" /\ tries > 1))
        => /\ ~SyncSetAllocated
           /\ \A s \in sems : s.owner # "call"
           /\ hist.cancelled = hist.begun
           /\ hist.ended = 0
           /\ hist.end_result = "none"
           /\ ~hist.waited

\* C8 witness: the re-issue after a buffer growth failed under an active
\* transaction, which was cancelled
C8_Witness ==
    /\ pc = "done"
    /\ result.kind = "Ioctl"
    /\ grown = 1
    /\ is_active(sync) /\ hist.cancelled >= 1
    /\ ~SemExists(sync.semid)

\* the caller is inside UdevSync::end
InEnd ==
    pc \in {"end", "end_dec_destroy", "notify_sem_wait", "wait_destroy",
            "wait_zero", "end_destroy"}

\* C9 without the cookie on the wire: within one do_ioctl attempt at most one
\* transaction is open, every issue of the ioctl is made under the same
\* semaphore set, and end is entered only after a response with
\* DM_BUFFER_FULL clear.
C9_SameTransaction ==
    /\ hist.begun - hist.cancelled - hist.ended \in {0, 1}
    /\ Cardinality(hist.sets) <= 1
    /\ InEnd => "DM_BUFFER_FULL_FLAG" \notin v.flags

\* C9: within one do_ioctl attempt begin is called once, every issue of the
\* ioctl carries the same event_nr (cookie) and is made under the same
\* semaphore set, and end is entered only after a response with
\* DM_BUFFER_FULL clear.
C9_ReissueSameCookie ==
    /\ hist.begun - hist.cancelled - hist.ended \in {0, 1}
    /\ Cardinality(hist.event_nrs) <= 1
    /\ Cardinality(hist.sets) <= 1
    /\ InEnd => "DM_BUFFER_FULL_FLAG" \notin v.flags

\* max(MIN_BUF_SIZE, size_of header + in_data.len()): the first buffer size
Floor ==
    IF DM_IOCTL_STRUCT_LEN + in_len > MIN_BUF_SIZE
    THEN DM_IOCTL_STRUCT_LEN + in_len ELSE MIN_BUF_SIZE

\* ceil(x / 2) on <<high, low>> pairs
CeilHalf(x) ==
    LET lo == (x[1] % 2) * 32768 + (x[2] \div 2) + (x[2] % 2)
    IN  <<(x[1] \div 2) + (lo \div 65536), lo % 65536>>

RECURSIVE CeilShift(_, _)
\* ceil(x / 2^n)
CeilShift(x, n) == IF n = 0 THEN x ELSE CeilShift(CeilHalf(x), n - 1)

\* the least n >= 0 with t <= f * 2^n, that is ceil(log2(t / f)) for t >= f
Doublings(t, f) ==
    CHOOSE n \in 0..33 :
        /\ U32Leq(CeilShift(t, n), u32(f))
        /\ \A m \in 0..(n - 1) : ~U32Leq(CeilShift(t, m), u32(f))

\* the kernel answers DM_BUFFER_FULL below kernel.thresh and success from it
FullBelowThreshold ==
    /\ kernel.busy = 0 /\ kernel.final = "OK"
    /\ U32Leq(kernel.thresh, U32_MAX)

MinDoubleOrMax(x) ==
    IF x[1] < 32768
    THEN <<2 * x[1] + (IF x[2] >= 32768 THEN 1 ELSE 0),
           IF x[2] >= 32768 THEN 2 * x[2] - 65536 ELSE 2 * x[2]>>
    ELSE U32_MAX

\* C11: at every issue of the ioctl the header's data_size equals the length
\* of the buffer, which is at most 2^32 - 1; a growth step takes the length
\* to min(2 * length, 2^32 - 1); DM_BUFFER_FULL at length 2^32 - 1 ends the
\* call with IoctlResultTooLarge and no further issue.
C11_SizeCappedAtU32Max ==
    /\ [](pc = "nix_ioctl" =>
            /\ v.data_size = v.len
            /\ v.len[1] \in 0..65535 /\ v.len[2] \in 0..65535)
    /\ [][(pc = "nix_ioctl" /\ grown' = grown + 1) =>
            /\ v'.len = MinDoubleOrMax(v.len)
            /\ v'.data_size = v'.len]_vars
    /\ [][(/\ pc = "nix_ioctl" /\ v.len = U32_MAX
           /\ KernelOutcome(kernel, busy_given, grown, v.len) = "FULL") =>
            /\ pc' = "done"
            /\ result'.kind = "IoctlResultTooLarge"
            /\ grown' = grown]_vars
    /\ [](result.kind = "IoctlResultTooLarge" =>
            /\ pc = "done"
            /\ v.len = U32_MAX
            /\ hist.issued = grown + 1)

\* C11 witness: the call failed with IoctlResultTooLarge at length 2^32 - 1,
\* reached by the saturating doubling of 2^31
C11_Witness ==
    /\ pc = "done"
    /\ result.kind = "IoctlResultTooLarge"
    /\ v.len = U32_MAX /\ v.data_size = U32_MAX
    /\ grown = 18 /\ hist.issued = 19 /\ in_len = 0

\* C12: a successful call returns the bytes of the final buffer (the one the
\* last response was written to) from data_start to max(data_start,
\* data_size) of the final response header, a range inside the buffer; with
\* data_size <= data_start the payload is empty.
C12_PayloadRange ==
    (pc = "done" /\ result.kind = "Ok")
        => /\ "DM_BUFFER_FULL_FLAG" \notin v.flags
           /\ v.data = hist.ioctls
           /\ result.payload.tag = v.data
           /\ result.payload.lo = v.data_start
           /\ result.payload.hi = (IF U32Leq(v.data_size, v.data_start)
                                   THEN v.data_start ELSE v.data_size)
           /\ U32Leq(result.payload.hi, v.len)
           /\ U32Leq(v.data_size, v.data_start)
                 => result.payload.lo = result.payload.hi

\* C12 witness: a response with data_size below data_start gave an empty
\* payload
C12_Witness ==
    /\ pc = "done" /\ result.kind = "Ok"
    /\ U32Less(v.data_size, v.data_start)
    /\ result.payload.lo = result.payload.hi
    /\ result.payload.hi = u32(DM_IOCTL_STRUCT_LEN)

\* C13: begin without DM_UDEV_PRIMARY_SOURCE_FLAG returns the inactive
\* transaction (cookie 0, semid -1) and creates no semaphore set; end on it
\* returns Ok at once and cancel returns, whatever uevent_generated is, and
\* neither changes a semaphore set.
C13_InactiveNoSemaphore ==
    /\ [][(pc = "do_ioctl" /\ ~primary_source(ioctl, hdr.flags) /\ Caller) =>
            /\ sync' = [cookie |-> EventNr({}, 0), semid |-> -1]
            /\ pc' = "nix_ioctl"
            /\ sems' = sems /\ next_semid' = next_semid]_vars
    /\ [][(pc = "end" /\ sync = Inactive /\ Caller) =>
            /\ pc' = "done"
            /\ hist'.end_result = "Ok"
            /\ sems' = sems]_vars
    /\ [][(pc = "cancel" /\ sync = Inactive /\ Caller) =>
            /\ pc' = "done"
            /\ sems' = sems]_vars
    /\ []((/\ sync = Inactive /\ hist.failed_at = "none"
            /\ pc \in {"nix_ioctl", "cancel", "end", "done"}) =>
            /\ \A s \in sems : s.owner # "call"
            /\ hist.begun = 0)

\* C13 witness: end(true) on an inactive transaction returned Ok
C13_Witness ==
    /\ pc = "done"
    /\ sync = Inactive /\ uevent_generated
    /\ hist.end_result = "Ok" /\ hist.ended = 0
    /\ sems = {} /\ next_semid = 0

\* C13 second case: cancel on an inactive transaction returned
C13_WitnessCancel ==
    /\ pc = "done"
    /\ sync = Inactive /\ result.kind = "Ioctl"
    /\ hist.cancelled = 0 /\ sems = {} /\ next_semid = 0

\* the semget calls of the current begin all collided and begin gave up
CookieRetriesExhausted ==
    /\ pc = "done"
    /\ hist.failed_at = "semget" /\ hist.semget_last = "EEXIST"

\* C14 as stated: begin makes at most 4 semget attempts; when all 4 collide
\* with an existing key it fails with the UdevSync error.
C14_Original ==
    /\ hist.semgets <= COOKIE_RETRIES
    /\ CookieRetriesExhausted =>
          hist.semgets = COOKIE_RETRIES /\ result.kind = "UdevSync"

\* C14 amended: begin makes at most COOKIE_RETRIES + 1 = 5 semget attempts,
\* a further one only after EEXIST; when all 5 collide with an existing key
\* it fails with the UdevSync error, and no set was created by it.
C14_CookieRetriesBounded ==
    /\ hist.semgets <= COOKIE_RETRIES + 1
    /\ pc = "gen_cookie" => hist.semgets = COOKIE_RETRIES - gen_delays
    /\ (pc = "gen_cookie" /\ hist.semgets > 0) => hist.semget_last = "EEXIST"
    /\ CookieRetriesExhausted =>
          /\ hist.semgets = COOKIE_RETRIES + 1
          /\ result.kind = "UdevSync"
          /\ \A s \in sems : s.owner # "call"

\* C14 witness: begin gave up after five collisions
C14_Witness ==
    /\ CookieRetriesExhausted
    /\ hist.semgets = COOKIE_RETRIES + 1
    /\ result.kind = "UdevSync"
    /\ tries = 1

\* C15: when a semaphore operation inside end on an active transaction
\* failed (the compensating decrement, the wait, or a destroy), end returned
\* an error, not Ok.
C15_EndErrorOnFailure ==
    (pc = "done" /\ hist.ended = 1 /\ hist.end_failed # {})
        => hist.end_result = "Err"

\* C15 for the decrement and the wait alone: their failure makes end return
\* an error.
C15_DecOrWaitFailureIsError ==
    (/\ pc = "done" /\ hist.ended = 1
     /\ hist.end_failed \cap {"notify_sem_dec", "notify_sem_wait"} # {})
        => hist.end_result = "Err"

\* C16: whenever end on an active transaction has returned, a removal of the
\* semaphore set was attempted inside it.
C16_EndAlwaysRemoves ==
    (pc = "done" /\ hist.ended = 1) => hist.end_rmids >= 1

\* C17: when end returned an error after a successful ioctl with
\* DM_BUFFER_FULL clear, DM::ioctl returns Ok with the payload of that
\* response and the caller's header holds the response header; no step of
\* end starts another attempt.
C17_EndErrorKeepsResult ==
    /\ []((pc = "done" /\ hist.end_result = "Err") =>
            /\ result.kind = "Ok"
            /\ "DM_BUFFER_FULL_FLAG" \notin v.flags
            /\ v.data = hist.ioctls
            /\ result.payload = [tag |-> v.data, lo |-> v.data_start,
                                 hi |-> U32Max2(v.data_start, v.data_size)]
            /\ hdr.flags = v.flags /\ hdr.event_nr = v.event_nr
            /\ hdr.data_start = v.data_start /\ hdr.data_size = v.data_size
            /\ tries = busy_given + 1)
    /\ [][(InEnd /\ Caller) =>
            /\ tries' = tries /\ delays' = delays
            /\ hist'.ioctls = hist.ioctls
            /\ pc' \in {"done", "end_dec_destroy", "notify_sem_wait",
                        "wait_destroy", "wait_zero", "end_destroy"}]_vars

\* C17 witness: end failed and the call returned a payload that is not empty
C17_Witness ==
    /\ pc = "done"
    /\ is_active(sync)
    /\ hist.end_result = "Err"
    /\ result.kind = "Ok"
    /\ U32Less(result.payload.lo, result.payload.hi)

\* the caller is inside UdevSync::begin on its way to an active transaction
InBegin ==
    pc \in {"gen_cookie", "SETVAL", "GETVAL", "notify_sem_inc",
            "create_destroy", "begin_destroy"}

\* the first syscall of a do_ioctl attempt is about to be issued
FirstIssue == pc = "nix_ioctl" /\ hist.issued = 0

\* device-remove, device-rename, or device-suspend with DM_SUSPEND clear in
\* the request header
EventSource ==
    \/ ioctl \in {"DM_DEV_REMOVE_CMD", "DM_DEV_RENAME_CMD"}
    \/ ioctl = "DM_DEV_SUSPEND_CMD" /\ "DM_SUSPEND_FLAG" \notin hdr.flags

\* C18: for every command of the command surface and every flag set of the
\* caller, the transaction under which the ioctl is issued is active exactly
\* for device-remove, device-rename and device-suspend with DM_SUSPEND clear
\* in the request header, and only for these begin creates a semaphore set.
C18_ActiveIffEventSource ==
    /\ FirstIssue => (is_active(sync) <=> EventSource)
    /\ FirstIssue /\ ~EventSource => sync = Inactive
    /\ InBegin => EventSource

\* C18 witness: a remove whose caller set DM_SUSPEND in the options is issued
\* under an active transaction
C18_Witness ==
    /\ FirstIssue
    /\ ioctl = "DM_DEV_REMOVE_CMD"
    /\ "DM_SUSPEND_FLAG" \in hist.options.flags
    /\ is_active(sync)

\* C18 second case: a suspend with DM_SUSPEND set is issued under the
\* inactive transaction
C18_WitnessSuspend ==
    /\ FirstIssue
    /\ ioctl = "DM_DEV_SUSPEND_CMD"
    /\ "DM_SUSPEND_FLAG" \in hdr.flags
    /\ sync = Inactive

\* C19: at every issue of the ioctl the flags of the request header are the
\* intersection of the caller's flags with the allow-list of the command.
C19_FlagsMasked ==
    pc = "nix_ioctl" => v.flags = Allowable(ioctl) \cap hist.options.flags

\* C19 for the first issue of an attempt alone.
C19_FirstIssueMasked ==
    FirstIssue => v.flags = Allowable(ioctl) \cap hist.options.flags

\* C20: transactions that are live at the same time, of this call and of
\* other processes, never share a semaphore key or a semaphore set: the set
\* the call works on is one it created itself under its own cookie, and a
\* begin whose nonce collides with a live key leaves every set as it is and
\* attaches to none.
C20_NoSharedKey ==
    /\ [](\A s, t \in sems : (s.key = t.key \/ s.id = t.id) => s = t)
    /\ []((is_active(sync) /\ SemExists(sync.semid)) =>
            /\ SemOf(sync.semid).owner = "call"
            /\ SemOf(sync.semid).key = sync.cookie.lo)
    /\ []((pc \in {"SETVAL", "GETVAL", "notify_sem_inc"}
           /\ SemExists(cookie_pair.semid)) =>
            /\ SemOf(cookie_pair.semid).owner = "call"
            /\ SemOf(cookie_pair.semid).key = cookie_pair.cookie)
    /\ [][(pc = "gen_cookie" /\ Caller /\ hist'.semget_last = "EEXIST") =>
            /\ sems' = sems
            /\ cookie_pair' = cookie_pair
            /\ pc' \in {"gen_cookie", "done"}]_vars

\* C20 witness: after a collision with the live key of another process the
\* call holds an active transaction under a different key
C20_Witness ==
    /\ pc = "nix_ioctl"
    /\ is_active(sync) /\ SemExists(sync.semid)
    /\ hist.semgets >= 2
    /\ \E s \in sems : s.owner = "ext" /\ s.key # sync.cookie.lo

\* C21: when begin returned an error (semget, SETVAL, the GETVAL read-back
\* or notify_sem_inc failed), no semaphore set created by the call is
\* allocated.
C21_BeginErrorLeavesNoSet ==
    (pc = "done" /\ ~BeginNeverFailed) => \A s \in sems : s.owner # "call"

\* C21 for the failures other than the read-back: semget, SETVAL and
\* notify_sem_inc.
C21_OtherFailuresLeaveNoSet ==
    (pc = "done" /\ hist.failed_at \in {"semget", "SETVAL", "notify_sem_inc"})
        => \A s \in sems : s.owner # "call"

(***************************************************************************)
(* The binary record codec of dm.rs: the encoder of table_load and the     *)
(* decoders parse_table_status, list_devices, table_deps and               *)
(* list_versions.  Buffers are sequences of bytes, offsets count from 0.   *)
(* A u64 is kept as four 16-bit limbs, most significant first.             *)
(***************************************************************************)
\* longest target list a table holds
MaxTargets == 3
\* longest run of letters in a params string
MaxParamLen == 7
\* longest device name in a name list
MaxNameLen == 5

\* &s[from..]
Slice(s, from) == SubSeq(s, from + 1, Len(s))

\* &s[from..to]
Range(s, from, to) == SubSeq(s, from + 1, to)

\* vec![0; n]
Zeros(n) == [i \in 1..n |-> 0]

Letters(n) == [i \in 1..n |-> 97]

le16(w) == <<w % 256, w \div 256>>

u64(n) == <<0, 0, n \div 65536, n % 65536>>

\* the bytes of an integer field inside a struct (little endian)
u32_to_ne_bytes(x) == le16(x[2]) \o le16(x[1])

u64_to_ne_bytes(x) == le16(x[4]) \o le16(x[3]) \o le16(x[2]) \o le16(x[1])

u32_from_ne_bytes(b) == <<b[3] + 256 * b[4], b[1] + 256 * b[2]>>

u64_from_ne_bytes(b) ==
    <<b[7] + 256 * b[8], b[5] + 256 * b[6], b[3] + 256 * b[4],
      b[1] + 256 * b[2]>>

\* x as usize, for an index into a buffer: the buffers of the model are
\* shorter than 65536 bytes, an index with a high half lies past every end
as_usize(x) == IF x[1] = 0 THEN x[2] ELSE 65536

\* util::align_to(num, align_to), align_to a power of two
align_to(num, align) == ((num + (align - 1)) \div align) * align

\* str::from_utf8(..).is_ok(); the only bytes above 127 in the model are 0xFF
from_utf8_ok(s) == \A i \in 1..Len(s) : s[i] < 128

\* slc.iter().position(|c| *c == b'\0'), -1 for None
position_nul(slc) ==
    IF \E i \in 1..Len(slc) : slc[i] = 0
    THEN (CHOOSE i \in 1..Len(slc) :
              slc[i] = 0 /\ \A j \in 1..(i - 1) : slc[j] # 0) - 1
    ELSE -1

\* util::str_from_byte_slice: the bytes up to the first NUL, as a str
str_from_byte_slice(slc) ==
    LET i == position_nul(slc)
    IN  IF i >= 0 /\ from_utf8_ok(Range(slc, 0, i))
        THEN [some |-> TRUE, str |-> Range(slc, 0, i)]
        ELSE [some |-> FALSE, str |-> <<>>]

\* util::str_from_c_str: the same on a fixed-width c_char field
str_from_c_str(slc) == str_from_byte_slice(slc)

\* size_of::<dmi::Struct_dm_target_spec>(): sector_start u64, length u64,
\* status i32, next u32, target_type [c_char; 16]
SIZEOF_TARGET_SPEC == 40

\* targ.target_type.len()
DM_MAX_TYPE_NAME == 16

\* util::slice_from_c_struct(&targ)
slice_from_c_struct(targ) ==
    u64_to_ne_bytes(targ.sector_start) \o u64_to_ne_bytes(targ.length)
        \o u32_to_ne_bytes(targ.status) \o u32_to_ne_bytes(targ.next)
        \o targ.target_type

\* &*(res.as_ptr() as *const dmi::Struct_dm_target_spec), for a res
\* of at least SIZEOF_TARGET_SPEC bytes
Struct_dm_target_spec(res) ==
    [sector_start |-> u64_from_ne_bytes(Range(res, 0, 8)),
     length |-> u64_from_ne_bytes(Range(res, 8, 16)),
     status |-> u32_from_ne_bytes(Range(res, 16, 20)),
     next |-> u32_from_ne_bytes(Range(res, 20, 24)),
     target_type |-> Range(res, 24, 40)]

\* what a decoding function does: it returns Ok(value) or Err(Invalid), or
\* it panics; oob tells that it read outside the buffer on the way
Ok(value) == [kind |-> "Ok", value |-> value, oob |-> FALSE]

OkOob(value) == [kind |-> "Ok", value |-> value, oob |-> TRUE]

Invalid(oob) == [kind |-> "Err", value |-> <<>>, oob |-> oob]

Panic(oob) == [kind |-> "panic", value |-> <<>>, oob |-> oob]

NoDecoded == [kind |-> "none", value |-> <<>>, oob |-> FALSE]

\* mutant: the params are closed by a single NUL and not padded
write_target_unpadded(t) ==
    LET targ == [sector_start |-> t.sector_start,
                 length |-> t.length,
                 status |-> u32(0),
                 next |-> u32(SIZEOF_TARGET_SPEC + Len(t.params) + 1),
                 target_type |-> t.target_type
                     \o Zeros(DM_MAX_TYPE_NAME - Len(t.target_type))]
    IN  slice_from_c_struct(targ) \o t.params \o Zeros(1)

\* one pass of the loop of table_load over a target: the record, the
\* params and the padding written to the cursor
write_target(t) ==
    LET aligned_len == align_to(Len(t.params) + 1, 8)
        targ == [sector_start |-> t.sector_start,
                 length |-> t.length,
                 status |-> u32(0),
                 next |-> u32(SIZEOF_TARGET_SPEC + aligned_len),
                 target_type |-> t.target_type
                     \o Zeros(DM_MAX_TYPE_NAME - Len(t.target_type))]
        padding == aligned_len - Len(t.params)
    IN  slice_from_c_struct(targ) \o t.params \o Zeros(padding)

RECURSIVE write_targets(_)
write_targets(ts) ==
    IF ts = <<>> THEN <<>>
    ELSE write_target(Head(ts)) \o write_targets(Tail(ts))

\* hdr.target_count and data_in of table_load
table_load_data_in(ts) ==
    [target_count |-> u32(Len(ts)), bytes |-> write_targets(ts)]

\* the loop of parse_table_status with n passes left; the set of the
\* outcomes it can have.  A pass on fewer than SIZEOF_TARGET_SPEC bytes
\* looks for the NUL of target_type through the end of the buffer into
\* whatever lies behind it, unless it finds one before; if it gets a type it
\* panics on &result[size_of::<Struct_dm_target_spec>()..]
RECURSIVE parse_loop(_, _, _, _)
parse_loop(n, buf, next_off, acc) ==
    IF n = 0 THEN {Ok(acc)}
    ELSE IF next_off > Len(buf) THEN {Panic(FALSE)}
    ELSE LET res == Slice(buf, next_off)
         IN  IF Len(res) < SIZEOF_TARGET_SPEC
             THEN LET part == Range(res, 24, Len(res))
                  IN  IF position_nul(part) < 0
                      THEN {Invalid(TRUE), Panic(TRUE)}
                      ELSE IF str_from_byte_slice(part).some
                      THEN {Panic(FALSE)}
                      ELSE {Invalid(FALSE)}
             ELSE LET targ == Struct_dm_target_spec(res)
                      target_type == str_from_c_str(targ.target_type)
                      params == str_from_byte_slice(
                                    Slice(res, SIZEOF_TARGET_SPEC))
                  IN  IF ~target_type.some THEN {Invalid(FALSE)}
                      ELSE IF ~params.some THEN {Invalid(FALSE)}
                      ELSE parse_loop(n - 1, buf, as_usize(targ.next),
                               Append(acc,
                                   [sector_start |-> targ.sector_start,
                                    length |-> targ.length,
                                    target_type |-> target_type.str,
                                    params |-> params.str]))

\* DM::parse_table_status(count, buf), count below 65536
parse_table_status(count, buf) ==
    IF buf # <<>> THEN parse_loop(as_usize(count), buf, 0, <<>>)
    ELSE {Ok(<<>>)}

\* offsetof name in dmi::Struct_dm_name_list: dev u64, next u32, name
NAME_OFFSET == 12

\* more devices than this a name list does not hold
MaxDevices == 2

None == [some |-> FALSE, nr |-> u32(0)]

Some(nr) == [some |-> TRUE, nr |-> nr]

\* mutant: the event number is looked for at the next multiple of 4
event_nr_offset_4(name_len) == align_to(NAME_OFFSET + name_len + 1, 4)

\* where list_devices reads the event number of a record, from the start
\* of the record
event_nr_offset(name_len) == align_to(NAME_OFFSET + name_len + 1, 8)

\* the loop of list_devices on the rest of the data, hdr.version[1] being
\* minor; the set of the outcomes it can have
RECURSIVE list_devices_loop(_, _, _)
list_devices_loop(res, minor, devs) ==
    IF Len(res) < NAME_OFFSET THEN {Panic(FALSE)}
    ELSE LET dm_name == str_from_byte_slice(Slice(res, NAME_OFFSET))
             offset == event_nr_offset(Len(dm_name.str))
         IN  IF ~dm_name.some THEN {Invalid(FALSE)}
             ELSE IF minor > 36 /\ offset + 4 > Len(res) THEN {Panic(FALSE)}
             ELSE IF dm_name.str = <<>> THEN {Invalid(FALSE)}
             ELSE LET event_nr ==
                          IF minor <= 36 THEN None
                          ELSE Some(u32_from_ne_bytes(
                                        Range(res, offset, offset + 4)))
                      next == as_usize(u32_from_ne_bytes(Range(res, 8, 12)))
                      pushed == Append(devs,
                                    [name |-> dm_name.str,
                                     dev |-> u64_from_ne_bytes(
                                                 Range(res, 0, 8)),
                                     event_nr |-> event_nr])
                  IN  IF next = 0 THEN {Ok(pushed)}
                      ELSE IF next > Len(res) THEN {Panic(FALSE)}
                      ELSE list_devices_loop(Slice(res, next), minor, pushed)

\* DM::list_devices after the ioctl
list_devices_data_out(minor, bytes) ==
    IF bytes # <<>> THEN list_devices_loop(bytes, minor, <<>>)
    ELSE {Ok(<<>>)}

\* size_of::<dmi::Struct_dm_target_deps>(): count u32, padding u32
SIZEOF_TARGET_DEPS == 8

\* what a read behind the end of the buffer can yield
Garbage == {u32(0), U32_MAX}

\* *d as u32 for the i-th u64 behind the struct
kdev_t(bytes, i) ==
    LET d == u64_from_ne_bytes(Range(bytes, 8 * i, 8 * i + 8))
    IN  <<d[3], d[4]>>

\* DM::table_deps after the ioctl: count u64s are read behind the struct,
\* in the buffer or not
table_deps_data_out(bytes) ==
    IF bytes = <<>> THEN {Ok(<<>>)}
    ELSE IF Len(bytes) < SIZEOF_TARGET_DEPS THEN {Panic(FALSE)}
    ELSE LET count == as_usize(u32_from_ne_bytes(Range(bytes, 0, 4)))
             inside == (Len(bytes) - SIZEOF_TARGET_DEPS) \div 8
         IN  IF count <= inside
             THEN {Ok([i \in 1..count |-> kdev_t(bytes, i)])}
             ELSE {Panic(TRUE)} \cup
                  {OkOob([i \in 1..count |->
                             IF i <= inside THEN kdev_t(bytes, i)
                             ELSE g[i - inside]]) :
                      g \in [1..(count - inside) -> Garbage]}

\* size_of::<dmi::Struct_dm_target_versions>(): next u32, version [u32; 3]
SIZEOF_TARGET_VERSIONS == 16

\* the loop of list_versions on the rest of the data
RECURSIVE list_versions_loop(_, _)
list_versions_loop(res, vers) ==
    IF Len(res) < SIZEOF_TARGET_VERSIONS THEN {Panic(FALSE)}
    ELSE LET name == str_from_byte_slice(Slice(res, SIZEOF_TARGET_VERSIONS))
             next == as_usize(u32_from_ne_bytes(Range(res, 0, 4)))
             pushed == Append(vers,
                           [name |-> name.str,
                            version |->
                                <<u32_from_ne_bytes(Range(res, 4, 8)),
                                  u32_from_ne_bytes(Range(res, 8, 12)),
                                  u32_from_ne_bytes(Range(res, 12, 16))>>])
         IN  IF ~name.some THEN {Invalid(FALSE)}
             ELSE IF next = 0 THEN {Ok(pushed)}
             ELSE IF next > Len(res) THEN {Panic(FALSE)}
             ELSE list_versions_loop(Slice(res, next), pushed)

\* DM::list_versions after the ioctl
list_versions_data_out(bytes) ==
    IF bytes # <<>> THEN list_versions_loop(bytes, <<>>)
    ELSE {Ok(<<>>)}

(***************************************************************************)
(* The tables and the kernel's replies the codec is applied to.            *)
(***************************************************************************)
\* "linear"
Linear == <<108, 105, 110, 101, 97, 114>>

\* params strings: letters, with and without a trailing blank
Params ==
    {Letters(n) \o ws : n \in {0, 1, MaxParamLen}, ws \in {<<>>, <<32>>}}

\* a table: targets in ascending sector order
Table(ps) ==
    [i \in 1..Len(ps) |->
        [sector_start |-> u64(8 * (i - 1)), length |-> u64(8),
         target_type |-> Linear, params |-> ps[i]]]

Tables == {Table(ps) : ps \in UNION {[1..n -> Params] : n \in 0..MaxTargets}}

\* the data of the kernel's DM_TABLE_STATUS reply for a table: the records
\* one after the other, next holding the offset of the following record
\* from the start of the data
RECURSIVE status_data(_, _)
status_data(ts, off) ==
    IF ts = <<>> THEN <<>>
    ELSE LET t == Head(ts)
             aligned_len == align_to(Len(t.params) + 1, 8)
             end == off + SIZEOF_TARGET_SPEC + aligned_len
             targ == [sector_start |-> t.sector_start, length |-> t.length,
                      status |-> u32(0), next |-> u32(end),
                      target_type |-> t.target_type
                          \o Zeros(DM_MAX_TYPE_NAME - Len(t.target_type))]
         IN  slice_from_c_struct(targ) \o t.params
                 \o Zeros(aligned_len - Len(t.params))
                 \o status_data(Tail(ts), end)

\* the u32 at offset at replaced by x
SetU32(bytes, at, x) ==
    [i \in 1..Len(bytes) |->
        IF i \in (at + 1)..(at + 4) THEN u32_to_ne_bytes(x)[i - at]
        ELSE bytes[i]]

\* the next field of the target record at offset rec replaced by x
SetNext(bytes, rec, x) == SetU32(bytes, rec + 20, x)

\* places where a reply of len bytes is cut short
Cuts(len) == {c \in {0, 4, 24, len - 24, len - 8} : c >= 0 /\ c < len}

Reply(shape, count, bytes) ==
    [shape |-> shape, target_count |-> u32(count), minor |-> 0,
     bytes |-> bytes]

NoReply == Reply("none", 0, <<>>)

\* the replies to DM_TABLE_STATUS for a table: the kernel's own, and the
\* damaged ones a decoder has to stand
StatusReplies(ts) ==
    LET bytes == status_data(ts, 0)
        n == Len(ts)
    IN  {Reply("kernel", n, bytes)}
        \cup {Reply("truncated", n, Range(bytes, 0, c)) :
                 c \in Cuts(Len(bytes))}
        \cup {Reply("short", n + 1, bytes)}
        \cup (IF n >= 2
              THEN {Reply("zero_next", n, SetNext(bytes, 0, u32(0))),
                    Reply("past_end", n,
                          SetNext(bytes, 0, u32(Len(bytes) + 8)))}
              ELSE {})

\* the data of the kernel's DM_LIST_DEVICES reply for devices whose names
\* have the lengths lens, the i-th being device number i with event number
\* 6 + i: per device dev, next, the name and its NUL, padding to a multiple
\* of 8 and, from minor version 37 on, the event number and a flags word.
\* next is the size of the record, 0 in the last one
RECURSIVE names_data(_, _, _)
names_data(lens, minor, i) ==
    IF lens = <<>> THEN <<>>
    ELSE LET len == Head(lens)
             named == align_to(NAME_OFFSET + len + 1, 8)
             size == IF minor > 36 THEN named + 8 ELSE named
             next == IF Tail(lens) = <<>> THEN 0 ELSE size
         IN  u64_to_ne_bytes(u64(i)) \o u32_to_ne_bytes(u32(next))
                 \o Letters(len) \o Zeros(named - NAME_OFFSET - len)
                 \o (IF minor > 36
                     THEN u32_to_ne_bytes(u32(6 + i)) \o Zeros(4) ELSE <<>>)
                 \o names_data(Tail(lens), minor, i + 1)

NameLens == UNION {[1..n -> 1..MaxNameLen] : n \in 0..MaxDevices}

\* next offsets smaller than a record: the record that follows overlaps the
\* one that holds the offset
Steps == {1, 4, 8}

NameReply(shape, minor, bytes) ==
    [shape |-> shape, target_count |-> u32(0), minor |-> minor,
     bytes |-> bytes]

NameReplies ==
    UNION {LET bytes == names_data(lens, minor, 1)
           IN  {NameReply("kernel", minor, bytes)}
               \cup {NameReply("truncated", minor, Range(bytes, 0, c)) :
                        c \in Cuts(Len(bytes)) \ {0}}
               \cup (IF Len(lens) >= 2
                     THEN {NameReply("past_end", minor,
                               SetU32(bytes, 8, u32(Len(bytes) + 8)))}
                          \cup {NameReply("overlap", minor,
                                    SetU32(bytes, 8, u32(step))) :
                                   step \in Steps}
                     ELSE {})
           : lens \in NameLens, minor \in {36, 37}}

\* the data of the kernel's DM_TABLE_DEPS reply for n devices: count,
\* padding, and the device numbers as u64
deps_data(n) ==
    u32_to_ne_bytes(u32(n)) \o Zeros(4)
        \o [i \in 1..(8 * n) |->
               IF i % 8 = 1 THEN 252 ELSE IF i % 8 = 2 THEN (i \div 8) + 1
               ELSE 0]

DepsReplies ==
    UNION {LET bytes == deps_data(n)
           IN  {Reply("kernel", 0, bytes)}
               \cup {Reply("truncated", 0, Range(bytes, 0, c)) :
                        c \in Cuts(Len(bytes)) \ {0}}
               \cup {Reply("past_end", 0, SetU32(bytes, 0, u32(n + 1)))}
           : n \in 0..MaxDevices}

\* the data of the kernel's DM_LIST_VERSIONS reply for n target types, the
\* i-th named by i letters with version (1, i, 0): next, version, the name
\* and its NUL, padded to a multiple of 8
RECURSIVE versions_data(_, _)
versions_data(n, i) ==
    IF i > n THEN <<>>
    ELSE LET size == align_to(SIZEOF_TARGET_VERSIONS + i + 1, 8)
         IN  u32_to_ne_bytes(u32(IF i = n THEN 0 ELSE size))
                 \o u32_to_ne_bytes(u32(1)) \o u32_to_ne_bytes(u32(i))
                 \o u32_to_ne_bytes(u32(0))
                 \o Letters(i) \o Zeros(size - SIZEOF_TARGET_VERSIONS - i)
                 \o versions_data(n, i + 1)

VersionReplies ==
    UNION {LET bytes == versions_data(n, 1)
           IN  {Reply("kernel", 0, bytes)}
               \cup {Reply("truncated", 0, Range(bytes, 0, c)) :
                        c \in Cuts(Len(bytes)) \ {0}}
               \cup (IF n >= 2
                     THEN {Reply("past_end", 0,
                               SetU32(bytes, 0, u32(Len(bytes) + 8)))}
                          \cup {Reply("overlap", 0,
                                    SetU32(bytes, 0, u32(step))) :
                                   step \in Steps}
                     ELSE {})
           : n \in 0..MaxDevices}

NoData == [target_count |-> u32(0), bytes |-> <<>>]

\* the transport at rest, while the codec runs
TransportIdle ==
    /\ pc = "done"
    /\ ioctl = "DM_TABLE_STATUS_CMD"
    /\ in_len = 0
    /\ hdr = to_ioctl_hdr({}, {}, {})
    /\ delays = IOCTL_RETRIES
    /\ tries = 1
    /\ gen_delays = 0
    /\ cookie_pair = NoPair
    /\ sync = Inactive
    /\ v = NoBuf
    /\ grown = 0
    /\ op_result = NoOp
    /\ uevent_generated = FALSE
    /\ result = NoResult
    /\ sems = {}
    /\ udevq = {}
    /\ kernel = CHOOSE k \in KernelPlans : TRUE
    /\ busy_given = 0
    /\ next_semid = 0
    /\ ext_left = 0
    /\ hist = <<>>

CodecInit ==
    /\ TransportIdle
    /\ devices = {}
    /\ request = [fn |-> "none", args |-> <<>>,
                  hdr |-> [name |-> "", uuid |-> "", flags |-> {}],
                  data_in |-> ""]
    /\ info = [kind |-> "none", name |-> "", uuid |-> ""]
    /\ calls = 0
    /\ data_in = NoData
    /\ decoded = NoDecoded
    /\ \/ /\ cpc = "table_load"
          /\ targets \in Tables
          /\ data_out = NoReply
       \/ /\ cpc = "table_status"
          /\ targets \in Tables
          /\ data_out \in StatusReplies(targets)
       \/ /\ cpc = "list_devices"
          /\ targets = <<>>
          /\ data_out \in NameReplies
       \/ /\ cpc = "table_deps"
          /\ targets = <<>>
          /\ data_out \in DepsReplies
       \/ /\ cpc = "list_versions"
          /\ targets = <<>>
          /\ data_out \in VersionReplies

\* DM::table_load up to the ioctl: the targets are flattened into data_in
table_load ==
    /\ cpc = "table_load"
    /\ data_in' = table_load_data_in(targets)
    /\ cpc' = "loaded"
    /\ UNCHANGED <<targets, data_out, decoded, transport_vars,
                 surface_vars>>

\* the table comes back as it was sent, in place of a DM_TABLE_STATUS reply
echo ==
    /\ cpc = "loaded"
    /\ data_out' = [shape |-> "echo", target_count |-> data_in.target_count,
                    minor |-> 0, bytes |-> data_in.bytes]
    /\ cpc' = "table_status"
    /\ UNCHANGED <<targets, data_in, decoded, transport_vars,
                 surface_vars>>

\* DM::table_status and DM::device_wait after the ioctl
table_status ==
    /\ cpc = "table_status"
    /\ decoded' \in parse_table_status(data_out.target_count, data_out.bytes)
    /\ cpc' = "done"
    /\ UNCHANGED <<targets, data_in, data_out, transport_vars,
                 surface_vars>>

\* the minor versions ioctl_to_version may stamp into a request
StampedMinors == {0, 36, 37}

\* mutant: the caller's header keeps the version stamped into the request
version_copied_back_kept(stamped, replied) == stamped

\* hdr.version[1] of the caller's header after DM::ioctl returned Ok: the
\* whole header of the response, the version with it, is copied over the
\* header do_ioctl had stamped
version_copied_back(stamped, replied) == replied

\* DM::list_devices after the ioctl
list_devices ==
    /\ cpc = "list_devices"
    /\ \E stamped \in StampedMinors :
          decoded' \in list_devices_data_out(
                          version_copied_back(stamped, data_out.minor),
                          data_out.bytes)
    /\ cpc' = "done"
    /\ UNCHANGED <<targets, data_in, data_out, transport_vars,
                 surface_vars>>

\* DM::table_deps after the ioctl
table_deps ==
    /\ cpc = "table_deps"
    /\ decoded' \in table_deps_data_out(data_out.bytes)
    /\ cpc' = "done"
    /\ UNCHANGED <<targets, data_in, data_out, transport_vars,
                 surface_vars>>

\* DM::list_versions after the ioctl
list_versions ==
    /\ cpc = "list_versions"
    /\ decoded' \in list_versions_data_out(data_out.bytes)
    /\ cpc' = "done"
    /\ UNCHANGED <<targets, data_in, data_out, transport_vars,
                 surface_vars>>

CodecNext ==
    \/ table_load \/ echo \/ table_status
    \/ list_devices \/ table_deps \/ list_versions

CodecSpec == CodecInit /\ [][CodecNext]_vars

(***************************************************************************)
(* Properties of the codec.                                                *)
(***************************************************************************)
\* C22: for every target list, the bytes the table_load encoder produced,
\* handed to parse_table_status with count = N, come back as the same
\* (start, length, type, params) tuples in the same order.
C22_RoundTrip ==
    (cpc = "done" /\ data_out.shape = "echo") => decoded = Ok(targets)

\* C22 for the lists of at most two targets: the first record starts at
\* offset 0, so its next field is the offset of the second from the start
C22_RoundTripUpToTwo ==
    (cpc = "done" /\ data_out.shape = "echo" /\ Len(targets) <= 2)
        => decoded = Ok(targets)

\* a reply of the kernel's own making is decoded to the table it describes,
\* whatever the number of targets
C22_KernelReplyDecoded ==
    [][(table_status /\ data_out.shape = "kernel") =>
          decoded' = Ok(targets)]_vars

\* the bytes are the records of ts one after the other: each the fixed
\* record with the fields of its target, then the params, then NULs up to
\* the next multiple of 8, its next field being its own size
RECURSIVE RecordsOf(_, _)
RecordsOf(ts, bytes) ==
    IF ts = <<>> THEN bytes = <<>>
    ELSE LET t == Head(ts)
             plen == Len(t.params)
         IN  /\ Len(bytes) >= SIZEOF_TARGET_SPEC
             /\ LET next == as_usize(u32_from_ne_bytes(Range(bytes, 20, 24)))
                IN  /\ next % 8 = 0
                    /\ next >= SIZEOF_TARGET_SPEC + plen + 1
                    /\ next <= SIZEOF_TARGET_SPEC + plen + 8
                    /\ next <= Len(bytes)
                    /\ u64_from_ne_bytes(Range(bytes, 0, 8)) = t.sector_start
                    /\ u64_from_ne_bytes(Range(bytes, 8, 16)) = t.length
                    /\ Range(bytes, 16, 20) = Zeros(4)
                    /\ Range(bytes, 24, 24 + Len(t.target_type))
                           = t.target_type
                    /\ \A i \in (25 + Len(t.target_type))..40 : bytes[i] = 0
                    /\ Range(bytes, 40, 40 + plen) = t.params
                    /\ \A i \in (41 + plen)..next : bytes[i] = 0
                    /\ RecordsOf(Tail(ts), Slice(bytes, next))

\* C23: the encoder of table_load emits, for each target in input order,
\* the fixed record, the params bytes and at least one NUL, padded to a
\* multiple of 8; the next field of a record is record size + padded params
\* length, the number of bytes emitted for the record, and a multiple of 8;
\* target_count is the number of targets.
C23_EncoderLayout ==
    cpc = "loaded" =>
        /\ data_in.target_count = u32(Len(targets))
        /\ RecordsOf(targets, data_in.bytes)

\* C23 witness: three targets with records of different sizes are encoded
C23_Witness ==
    /\ cpc = "loaded"
    /\ Len(targets) = 3
    /\ Len(targets[1].params) + 1 < 8
    /\ Len(targets[2].params) + 1 > 8
    /\ Len(data_in.bytes) > 3 * (SIZEOF_TARGET_SPEC + 8)

\* C24: parse_table_status(count, buf) consumes exactly count records: when
\* it returns Ok, the sequence it returns has exactly count tuples, for
\* every count and every buffer.
C24_ExactlyCount ==
    [][(table_status /\ decoded'.kind = "Ok") =>
          Len(decoded'.value) = as_usize(data_out.target_count)]_vars

\* C24 for the buffers that are not empty
C24_ExactlyCountNonEmpty ==
    [][(table_status /\ decoded'.kind = "Ok" /\ data_out.bytes # <<>>) =>
          Len(decoded'.value) = as_usize(data_out.target_count)]_vars

\* the reply has a record before the last, by count, whose next is zero
ZeroNextBeforeLast == data_out.shape = "zero_next"

\* C25: in parse_table_status a record other than the last (by count) whose
\* next offset is zero makes decoding fail with an error; it is neither
\* taken for the end of the list nor followed.
C25_ZeroNextIsError ==
    (cpc = "done" /\ ZeroNextBeforeLast) => decoded.kind = "Err"

\* what the decoder does with it: it follows the offset, reads the record
\* at offset 0 again for every record left, and returns Ok
C25_ZeroNextFollowed ==
    (cpc = "done" /\ ZeroNextBeforeLast) =>
        /\ decoded.kind = "Ok"
        /\ Len(decoded.value) = Len(targets)
        /\ \A i \in 1..Len(targets) : decoded.value[i] = targets[1]

\* the reply is cut short, or a next offset or a count in it points behind
\* its end
Damaged == data_out.shape \in {"truncated", "past_end", "short"}

\* C26: every decode entry point (list_devices, parse_table_status,
\* table_deps, list_versions) given a truncated buffer, or a record whose
\* next offset or count points past the end of the buffer, returns an error
\* value; it neither reads outside the buffer nor aborts.
C26_DamagedRejected ==
    (cpc = "done" /\ Damaged) => (decoded.kind = "Err" /\ ~decoded.oob)

\* char::is_whitespace on the bytes of the model
Whitespace == {9, 10, 11, 12, 13, 32}

EndsInWhitespace(s) == s # <<>> /\ s[Len(s)] \in Whitespace

\* C27: every params string returned by table_status / device_wait (through
\* parse_table_status) has its trailing whitespace trimmed: no returned
\* params string ends in a whitespace character.
C27_ParamsTrimmed ==
    [][(table_status /\ decoded'.kind = "Ok") =>
          \A i \in 1..Len(decoded'.value) :
              ~EndsInWhitespace(decoded'.value[i].params)]_vars

\* what is returned: the bytes of the reply up to the first NUL, as they are
C27_ParamsAsInReply ==
    [][(table_status /\ data_out.shape = "kernel") =>
          /\ decoded'.kind = "Ok"
          /\ Len(decoded'.value) = Len(targets)
          /\ \A i \in 1..Len(targets) :
                 decoded'.value[i].params = targets[i].params]_vars

\* the event numbers of devs are those found in the records of bytes at the
\* first multiple of align behind the NUL of the name, counted from the
\* start of the record
RECURSIVE EventNrsAt(_, _, _)
EventNrsAt(devs, bytes, align) ==
    devs = <<>> \/
        LET at == align_to(NAME_OFFSET + Len(Head(devs).name) + 1, align)
            next == as_usize(u32_from_ne_bytes(Range(bytes, 8, 12)))
        IN  /\ Head(devs).event_nr.some
            /\ at + 4 <= Len(bytes)
            /\ Head(devs).event_nr.nr
                   = u32_from_ne_bytes(Range(bytes, at, at + 4))
            /\ EventNrsAt(Tail(devs), Slice(bytes, next), align)

\* C28 as stated: in list_devices, when the event number is present, it is
\* read from the next 4-byte-aligned position following the terminating NUL
\* of the device name, for every name length.
C28_Original ==
    [][(list_devices /\ data_out.minor > 36 /\ decoded'.kind = "Ok") =>
          EventNrsAt(decoded'.value, data_out.bytes, 4)]_vars

\* C28 amended: in list_devices, when the event number is present, it is
\* read from the next 8-byte-aligned position following the terminating NUL
\* of the device name, counted from the start of the record, for every name
\* length.
C28_EventNrAligned8 ==
    [][(list_devices /\ data_out.minor > 36 /\ decoded'.kind = "Ok") =>
          EventNrsAt(decoded'.value, data_out.bytes, 8)]_vars

\* C28 witness: a device whose name of 4 letters ends 17 bytes into the
\* record is listed with its event number, read at offset 24
C28_Witness ==
    /\ cpc = "done"
    /\ data_out.minor > 36
    /\ data_out.shape = "kernel"
    /\ decoded.kind = "Ok"
    /\ Len(decoded.value) = 2
    /\ Len(decoded.value[1].name) = 4
    /\ decoded.value[1].event_nr = Some(u32(7))
    /\ decoded.value[2].event_nr = Some(u32(8))

(***************************************************************************)
(* The command surface: the identity fields of the header each pub fn of   *)
(* impl DM builds, the devices of the kernel the commands act on, and the  *)
(* DeviceInfo made of the header that comes back.  A function is one step. *)
(***************************************************************************)
\* number of functions called in a run
MaxCalls == 3

DmNames == {"n1", "n2"}

DmUuids == {"u1", "u2"}

\* the id argument of to_ioctl_hdr: None, or Some(DevId)
NoId == [kind |-> "None", val |-> ""]

DevIds == [kind : {"Name"}, val : DmNames] \cup [kind : {"Uuid"}, val : DmUuids]

\* the functions that take a DevId and pass it to to_ioctl_hdr
DevIdFns == {"device_remove", "device_suspend", "device_info", "device_wait",
             "table_load", "table_clear", "table_deps", "table_status",
             "target_msg"}

\* the functions that address no device
PlainFns == {"version", "remove_all", "list_devices", "list_versions",
             "arm_poll"}

hdr_set_name(h, name) == [h EXCEPT !.name = name]

hdr_set_uuid(h, uuid) == [h EXCEPT !.uuid = uuid]

\* mutant: the identifier is written into both fields
hdr_for_both(id, flags) ==
    [name |-> id.val, uuid |-> id.val, flags |-> flags]

\* to_ioctl_hdr(id, ..): the name and uuid fields of the header
hdr_for(id, flags) ==
    LET h == [name |-> "", uuid |-> "", flags |-> flags]
    IN  CASE id.kind = "Name" -> hdr_set_name(h, id.val)
          [] id.kind = "Uuid" -> hdr_set_uuid(h, id.val)
          [] OTHER -> h

\* device_create(name, uuid, ..), uuid "" for None
device_create_request(name, uuid) ==
    LET named == hdr_set_name(hdr_for(NoId, {}), name)
    IN  [fn |-> "device_create", args |-> <<name, uuid>>,
         hdr |-> IF uuid # "" THEN hdr_set_uuid(named, uuid) ELSE named,
         data_in |-> ""]

\* mutant: the header names the new identifier, data_in the old name
device_rename_request_swapped(old_name, new) ==
    [fn |-> "device_rename", args |-> <<old_name, new>>,
     hdr |-> hdr_set_name(
                 hdr_for(NoId, clean_flags({"DM_UUID"},
                     IF new.kind = "Uuid" THEN {"DM_UUID"} ELSE {})),
                 new.val),
     data_in |-> old_name]

\* device_rename(old_name, new)
device_rename_request(old_name, new) ==
    [fn |-> "device_rename", args |-> <<old_name, new>>,
     hdr |-> hdr_set_name(
                 hdr_for(NoId, clean_flags({"DM_UUID"},
                     IF new.kind = "Uuid" THEN {"DM_UUID"} ELSE {})),
                 old_name),
     data_in |-> new.val]

\* the functions that hand their DevId to to_ioctl_hdr
dev_id_request(fn, id) ==
    [fn |-> fn, args |-> <<id>>, hdr |-> hdr_for(id, {}), data_in |-> ""]

\* the functions that hand None to to_ioctl_hdr
plain_request(fn) ==
    [fn |-> fn, args |-> <<>>, hdr |-> hdr_for(NoId, {}), data_in |-> ""]

\* DeviceInfo::new(hdr); name() and uuid() are None for an empty field
DeviceInfo_new(h) == [kind |-> "Ok", name |-> h.name, uuid |-> h.uuid]

\* Err(DmError::Core(Error::Ioctl(..)))
IoctlErr == [kind |-> "Err", name |-> "", uuid |-> ""]

\* the kernel refuses a request naming a device by name and by uuid,
\* except for a create
BothGiven(h) == h.name # "" /\ h.uuid # ""

\* the devices a header addresses: by uuid when it has one, else by name
Addressed(h) ==
    {d \in devices : IF h.uuid # "" THEN d.uuid = h.uuid ELSE d.name = h.name}

Failed(h) == [ok |-> FALSE, devices |-> devices, hdr |-> h]

\* DM_DEV_CREATE in the kernel: a new device under a free name and a free
\* uuid; the name and uuid of the header stay as sent
kernel_dev_create(h) ==
    IF \/ h.name = ""
       \/ \E d \in devices :
             d.name = h.name \/ (h.uuid # "" /\ d.uuid = h.uuid)
    THEN Failed(h)
    ELSE [ok |-> TRUE,
          devices |-> devices \cup {[name |-> h.name, uuid |-> h.uuid]},
          hdr |-> h]

\* DM_DEV_RENAME in the kernel: the device named in the header gets the name
\* in the data if that name is free or, with DM_UUID, the uuid in the data
\* if it has none and that uuid is free; the name and uuid of the header
\* stay as sent
kernel_dev_rename(h, data) ==
    IF BothGiven(h) \/ ~\E d \in devices : d.name = h.name THEN Failed(h)
    ELSE LET d == CHOOSE d \in devices : d.name = h.name
         IN  IF "DM_UUID" \in h.flags
             THEN IF d.uuid # "" \/ \E e \in devices : e.uuid = data
                  THEN Failed(h)
                  ELSE [ok |-> TRUE,
                        devices |-> (devices \ {d})
                                        \cup {[d EXCEPT !.uuid = data]},
                        hdr |-> h]
             ELSE IF \E e \in devices : e.name = data
                  THEN Failed(h)
                  ELSE [ok |-> TRUE,
                        devices |-> (devices \ {d})
                                        \cup {[d EXCEPT !.name = data]},
                        hdr |-> h]

\* the commands that look a device up: the kernel writes the name and the
\* uuid of the device it found into the header
kernel_find(h) ==
    IF BothGiven(h) \/ Addressed(h) = {} THEN Failed(h)
    ELSE LET d == CHOOSE d \in Addressed(h) : TRUE
         IN  [ok |-> TRUE, devices |-> devices,
              hdr |-> [h EXCEPT !.name = d.name, !.uuid = d.uuid]]

\* DM_DEV_REMOVE in the kernel
kernel_dev_remove(h) ==
    LET found == kernel_find(h)
    IN  IF found.ok
        THEN [found EXCEPT !.devices = devices \ Addressed(h)]
        ELSE found

\* a function of the surface: the request is built, the kernel answers,
\* the DeviceInfo is made of the header that came back
returns(req, reply) ==
    /\ calls' = calls + 1
    /\ request' = req
    /\ devices' = reply.devices
    /\ info' = IF reply.ok THEN DeviceInfo_new(reply.hdr) ELSE IoctlErr
    /\ UNCHANGED <<transport_vars, codec_vars>>

device_create ==
    /\ calls < MaxCalls
    /\ \E name \in DmNames, uuid \in DmUuids \cup {""} :
            LET req == device_create_request(name, uuid)
            IN  returns(req, kernel_dev_create(req.hdr))

device_remove ==
    /\ calls < MaxCalls
    /\ \E id \in DevIds :
            LET req == dev_id_request("device_remove", id)
            IN  returns(req, kernel_dev_remove(req.hdr))

device_rename ==
    /\ calls < MaxCalls
    /\ \E old_name \in DmNames, new \in DevIds :
            LET req == device_rename_request(old_name, new)
            IN  returns(req, kernel_dev_rename(req.hdr, req.data_in))

device_info ==
    /\ calls < MaxCalls
    /\ \E id \in DevIds :
            LET req == dev_id_request("device_info", id)
            IN  returns(req, kernel_find(req.hdr))

\* the other functions that address a device
device_command ==
    /\ calls < MaxCalls
    /\ \E fn \in DevIdFns \ {"device_remove", "device_info"}, id \in DevIds :
            LET req == dev_id_request(fn, id)
            IN  returns(req, kernel_find(req.hdr))

\* the functions that address none; remove_all removes every device
plain_command ==
    /\ calls < MaxCalls
    /\ \E fn \in PlainFns :
            LET req == plain_request(fn)
            IN  returns(req, [ok |-> TRUE,
                              devices |-> IF fn = "remove_all" THEN {}
                                          ELSE devices,
                              hdr |-> req.hdr])

SurfaceInit ==
    /\ TransportIdle
    /\ cpc = "none"
    /\ targets = <<>>
    /\ data_in = NoData
    /\ data_out = NoReply
    /\ decoded = NoDecoded
    /\ devices = {}
    /\ request = plain_request("none")
    /\ info = [kind |-> "none", name |-> "", uuid |-> ""]
    /\ calls = 0

SurfaceNext ==
    \/ device_create \/ device_remove \/ device_rename \/ device_info
    \/ device_command \/ plain_command

SurfaceSpec == SurfaceInit /\ [][SurfaceNext]_vars

(***************************************************************************)
(* Properties of the command surface.                                      *)
(***************************************************************************)
ExactlyOneGiven(h) == (h.name # "") # (h.uuid # "")

\* C29 as stated: in every request built by the command surface exactly one
\* of the header's name field and uuid field is non-empty, never both, also
\* for device_create called with a uuid.
C29_Original == request.fn # "none" => ExactlyOneGiven(request.hdr)

\* C29 amended: in every request built from a device identifier, and in the
\* request of device_rename, which carries the old name, exactly one of the
\* header's name field and uuid field is non-empty, never both;
\* device_create sets the name and, called with a uuid, the uuid as well;
\* the functions that address no device leave both empty.
C29_IdentityFields ==
    /\ request.fn \in DevIdFns =>
          /\ ExactlyOneGiven(request.hdr)
          /\ request.args[1].kind = "Name" =>
                request.hdr.name = request.args[1].val
          /\ request.args[1].kind = "Uuid" =>
                request.hdr.uuid = request.args[1].val
    /\ request.fn = "device_rename" =>
          request.hdr.name = request.args[1] /\ request.hdr.uuid = ""
    /\ request.fn = "device_create" =>
          request.hdr.name = request.args[1]
              /\ request.hdr.uuid = request.args[2]
    /\ request.fn \in PlainFns =>
          request.hdr.name = "" /\ request.hdr.uuid = ""

\* C29 witness: device_create called with a uuid has sent a header with
\* both fields set, and the kernel has created the device
C29_Witness ==
    /\ request.fn = "device_create"
    /\ BothGiven(request.hdr)
    /\ info.kind = "Ok"
    /\ [name |-> request.hdr.name, uuid |-> request.hdr.uuid] \in devices

\* C29 witness: a request that names no device
C29_WitnessNone ==
    /\ request.fn = "list_devices"
    /\ request.hdr.name = "" /\ request.hdr.uuid = ""
    /\ info.kind = "Ok"

\* C30: after a successful device_rename (a new name, or a first uuid) the
\* DeviceInfo returned reports the previous name/uuid (for a uuid set on a
\* device without one, uuid() is None) and the device holds the new value;
\* a device_info query reports what the device holds, hence the new value.
C30_RenameReportsPrevious ==
    /\ [][(device_rename /\ info'.kind = "Ok") =>
             LET old_name == request'.args[1]
                 new == request'.args[2]
             IN  \E d \in devices :
                    /\ d.name = old_name
                    /\ info'.name = d.name
                    /\ new.kind = "Name" =>
                          /\ info'.name # new.val
                          /\ devices' = (devices \ {d})
                                 \cup {[name |-> new.val, uuid |-> d.uuid]}
                    /\ new.kind = "Uuid" =>
                          /\ d.uuid = ""
                          /\ info'.uuid = ""
                          /\ devices' = (devices \ {d})
                                 \cup {[name |-> d.name, uuid |-> new.val]}
          ]_vars
    /\ [][(device_info /\ info'.kind = "Ok") =>
             /\ [name |-> info'.name, uuid |-> info'.uuid] \in devices
             /\ LET id == request'.args[1]
                IN  IF id.kind = "Name" THEN info'.name = id.val
                    ELSE info'.uuid = id.val
          ]_vars

\* C30 witness: a uuid was set on a device that had none; the DeviceInfo
\* returned has no uuid, the device has it
C30_Witness ==
    /\ request.fn = "device_rename"
    /\ request.args[2].kind = "Uuid"
    /\ info.kind = "Ok"
    /\ info.uuid = ""
    /\ [name |-> request.args[1], uuid |-> request.args[2].val] \in devices

\* C30 witness: after a rename to a new name a query by the new name
\* reports it
C30_WitnessQuery ==
    /\ request.fn = "device_info"
    /\ request.args[1] = [kind |-> "Name", val |-> "n2"]
    /\ info.kind = "Ok" /\ info.name = "n2" /\ info.uuid = "u1"
    /\ calls = 3
    /\ ~\E d \in devices : d.name = "n1"

(***************************************************************************)
(* C31 - C35, C37, C38: the transport, continued.                          *)
(***************************************************************************)
\* the answer of the kernel to the syscall the caller is about to make
Answer == KernelOutcome(kernel, busy_given, grown, v.len)

\* C31: every failure of the ioctl syscall, for every command, becomes
\* Error::Ioctl with the errno of that syscall and the header of the buffer
\* of that syscall; when DM::ioctl returns after a failed syscall it returns
\* that error and no other kind.
C31_SyscallFailureIsIoctlError ==
    [][/\ (pc = "nix_ioctl" /\ pc' # pc /\ Answer \notin {"OK", "FULL"}) =>
             /\ pc' = "cancel"
             /\ op_result'.error = [kind |-> "Ioctl", errno |-> Answer,
                                    seq |-> hist'.ioctls,
                                    payload |-> NoPayload]
       /\ (pc = "cancel" /\ pc' = "done") =>
             /\ result'.kind = "Ioctl"
             /\ result'.errno = op_result.error.errno
             /\ result'.seq = hist.ioctls
             /\ result'.errno \in {"EBUSY", "ENXIO"}]_vars

\* a removal that was answered EBUSY on every attempt returned Error::Ioctl
C31_Witness ==
    /\ pc = "done"
    /\ ioctl = "DM_DEV_REMOVE_CMD"
    /\ tries = IOCTL_RETRIES + 1
    /\ result.kind = "Ioctl"
    /\ result.errno = "EBUSY"
    /\ result.seq = hist.ioctls

\* C32: immediately after a successful begin with the primary-source flag
\* the semaphore of the transaction has the value 2 (SETVAL 1, then one
\* increment), no other process having acted on that semaphore.
C32_BeginLeavesTwo ==
    [][(pc = "notify_sem_inc" /\ pc' = "nix_ioctl" /\ ~hist'.interfered) =>
          /\ is_active(sync')
          /\ "DM_UDEV_PRIMARY_SOURCE_FLAG" \in sync'.cookie.hi
          /\ \E s \in sems' : s.id = sync'.semid /\ s.val = 2
          /\ \E s \in sems : s.id = sync'.semid /\ s.val = 1]_vars

\* begin has just returned Ok for a command that generates uevents
C32_Witness ==
    /\ pc = "nix_ioctl"
    /\ hist.issued = 0
    /\ hist.begun = 1
    /\ ~hist.interfered
    /\ primary_source(ioctl, hdr.flags)
    /\ is_active(sync)
    /\ SemExists(sync.semid)
    /\ SemOf(sync.semid).val = 2

\* C33: in an end that returns Ok on an active transaction the caller makes
\* the compensating decrement exactly when the response lacks
\* DM_UEVENT_GENERATED_FLAG: two decrements of its own when no uevent was
\* generated, one when a uevent was generated; every decrement of the
\* caller comes before the wait for zero completes.
C33_CompensationIffNoUevent ==
    /\ []((pc = "done" /\ hist.end_result = "Ok" /\ is_active(sync)) =>
             hist.end_decs = IF "DM_UEVENT_GENERATED_FLAG" \in v.flags
                             THEN 1 ELSE 2)
    /\ [][hist'.end_decs # hist.end_decs =>
             /\ ~hist.waited /\ ~hist'.waited
             /\ hist'.end_decs = hist.end_decs + 1
             /\ (pc = "end" /\ "DM_UEVENT_GENERATED_FLAG" \notin v.flags) =>
                   pc' = "notify_sem_wait"
             /\ (pc = "end" /\ "DM_UEVENT_GENERATED_FLAG" \in v.flags) =>
                   pc' = "wait_zero"]_vars

\* end returned Ok after the compensating decrement and the caller's own
C33_Witness ==
    /\ pc = "done"
    /\ hist.end_result = "Ok"
    /\ is_active(sync)
    /\ "DM_UEVENT_GENERATED_FLAG" \notin v.flags
    /\ hist.end_decs = 2
    /\ hist.waited

\* end returned Ok after the caller's one decrement and the udev rule's
C33_WitnessUevent ==
    /\ pc = "done"
    /\ hist.end_result = "Ok"
    /\ is_active(sync)
    /\ "DM_UEVENT_GENERATED_FLAG" \in v.flags
    /\ hist.end_decs = 1
    /\ hist.udev_decs = 1

\* C34: when the response carries DM_UEVENT_GENERATED_FLAG and no other
\* process touches the semaphore, then once the udev rule has made its one
\* decrement (before, during or after the start of end) the running caller
\* comes to return Ok from end with the set destroyed; as long as the rule
\* has not made it end has not returned, however many steps are taken: the
\* wait has no timeout.
C34_EndReturnsOnceUdevDecrements ==
    /\ (is_active(sync) /\ uevent_generated /\ Quiet /\ hist.udev_decs = 1)
          ~> (/\ pc = "done"
              /\ hist.end_result = "Ok"
              /\ hist.udev_decs = 1
              /\ \A s \in sems : s.owner # "call")
    /\ []((is_active(sync) /\ uevent_generated /\ Quiet
             /\ hist.udev_decs = 0) =>
               /\ pc # "done"
               /\ hist.end_result = "none"
               /\ pc = "wait_zero" => /\ SemExists(sync.semid)
                                      /\ ~wait_for_zero(sync.semid))

\* such an end has returned Ok after waiting for the udev rule
C34_Witness ==
    /\ pc = "done"
    /\ is_active(sync) /\ uevent_generated /\ Quiet
    /\ hist.end_result = "Ok"
    /\ hist.waited
    /\ hist.end_decs = 1 /\ hist.udev_decs = 1
    /\ \A s \in sems : s.owner # "call"

\* the caller is blocked in the wait, the udev rule has not run
C34_WitnessBlocked ==
    /\ pc = "wait_zero"
    /\ is_active(sync) /\ uevent_generated /\ Quiet
    /\ hist.udev_decs = 0
    /\ SemOf(sync.semid).val = 1

\* the udev rule made its decrement while the caller had not yet entered
\* the wait of end
C34_WitnessRuleFirst ==
    /\ pc = "end"
    /\ is_active(sync) /\ uevent_generated /\ Quiet
    /\ hist.udev_decs = 1
    /\ SemOf(sync.semid).val = 1

\* a uevent without cookie was reported (the re-issue after a growth sent
\* the event_nr the kernel had written): no rule will decrement, the caller
\* stays in the wait
C34_WitnessNoCookie ==
    /\ pc = "wait_zero"
    /\ is_active(sync) /\ uevent_generated /\ Quiet
    /\ udevq = {} /\ hist.udev_decs = 0
    /\ SemOf(sync.semid).val = 1

\* the event_nr do_ioctl writes for transaction t: the options' udev flags
\* and the flags of t in the high half, the nonce of t in the low half
Cookie(t) ==
    EventNr(hist.options.udev_flags \cup
               (IF is_active(t) THEN {"DM_UDEV_PRIMARY_SOURCE_FLAG"} ELSE {}),
            IF is_active(t) THEN t.cookie.lo ELSE 0)

\* C35: at every issue of the ioctl the low half of the request's event_nr
\* is the nonce of the transaction of the attempt (not zero, the key of its
\* semaphore set) or 0 when the transaction is inactive, and the high half
\* holds the udev flags of the options, with DM_UDEV_PRIMARY_SOURCE_FLAG
\* when the transaction is active.
C35_EventNrOnWire ==
    pc = "nix_ioctl" =>
        /\ v.event_nr = Cookie(sync)
        /\ is_active(sync) =>
              /\ sync.cookie.lo \in 1..MaxNonce
              /\ SemExists(sync.semid) =>
                    SemOf(sync.semid).key = v.event_nr.lo

\* C35 for the first issue of every attempt alone: what do_ioctl stamps
C35_FirstIssueStamped ==
    FirstIssue =>
        /\ v.event_nr = Cookie(sync)
        /\ hdr.event_nr = Cookie(sync)
        /\ is_active(sync) =>
              /\ sync.cookie.lo \in 1..MaxNonce
              /\ SemExists(sync.semid) =>
                    SemOf(sync.semid).key = v.event_nr.lo

\* a later attempt of a removal is about to issue under the nonce of its own
\* transaction, the second semaphore set the call created
C35_WitnessLaterAttempt ==
    /\ FirstIssue
    /\ tries > 1
    /\ is_active(sync)
    /\ hist.begun = 2
    /\ v.event_nr.lo = sync.cookie.lo
    /\ SemOf(sync.semid).key = v.event_nr.lo

(***************************************************************************)
(* C36, C39, C40: the record codec, continued.                             *)
(***************************************************************************)
\* the values next_off takes in the loop of parse_table_status at the
\* iterations that find a whole record at &buf[next_off..]
RECURSIVE read_offsets(_, _, _)
read_offsets(n, buf, next_off) ==
    IF n = 0 \/ next_off + SIZEOF_TARGET_SPEC > Len(buf) THEN <<>>
    ELSE <<next_off>> \o
         read_offsets(n - 1, buf,
             as_usize(Struct_dm_target_spec(Slice(buf, next_off)).next))

\* the next field of the record at offset off of buf
NextAt(buf, off) == as_usize(Struct_dm_target_spec(Slice(buf, off)).next)

\* parse_table_status returns a list of targets for a reply that is not
\* empty
StatusDecoded ==
    /\ table_status
    /\ data_out.bytes # <<>>
    /\ decoded'.kind = "Ok"

\* C36: parse_table_status reads record i+1 at the start of record i plus
\* the next field of record i, for every count and every next sequence.
C36_NextRelative ==
    [][StatusDecoded =>
        LET offs == read_offsets(as_usize(data_out.target_count),
                                 data_out.bytes, 0)
        IN  /\ Len(offs) = Len(decoded'.value)
            /\ \A i \in 1..(Len(offs) - 1) :
                  offs[i + 1] = offs[i] + NextAt(data_out.bytes, offs[i])]_vars

\* what the loop does: record i+1 is read at the offset the next field of
\* record i gives from the start of the buffer
C36_NextFromStart ==
    [][StatusDecoded =>
        LET offs == read_offsets(as_usize(data_out.target_count),
                                 data_out.bytes, 0)
        IN  /\ Len(offs) = Len(decoded'.value)
            /\ offs # <<>> => offs[1] = 0
            /\ \A i \in 1..(Len(offs) - 1) :
                  offs[i + 1] = NextAt(data_out.bytes, offs[i])
            /\ \A i \in 1..Len(offs) :
                  LET targ == Struct_dm_target_spec(
                                  Slice(data_out.bytes, offs[i]))
                  IN  /\ decoded'.value[i].sector_start = targ.sector_start
                      /\ decoded'.value[i].length = targ.length]_vars

\* a reply of three records has been decoded to three targets
C36_Witness ==
    /\ cpc = "done"
    /\ Len(targets) = 3
    /\ data_out.shape = "kernel"
    /\ decoded.kind = "Ok"
    /\ Len(decoded.value) = 3

(***************************************************************************)
(* C37, C38: the retry loop of DM::ioctl and the transactions.             *)
(***************************************************************************)
\* the semaphore sets this call created that are allocated
OwnSets == {s \in sems : s.owner = "call"}

\* C37: across the retries of one device removal every attempt has its own
\* transaction: when an attempt starts, and all through its begin up to the
\* semget that succeeds, no set created by the call exists (the set of the
\* attempt before has been removed); at most one set created by the call
\* exists at any time; the transaction an attempt issues under was begun in
\* that attempt, all earlier ones having been cancelled, and its set is not
\* the set of the attempt before.
C37_OneTransactionPerAttempt ==
    /\ [](Cardinality(OwnSets) <= 1)
    /\ [](pc \in {"do_ioctl", "gen_cookie"} => OwnSets = {})
    /\ []((pc = "nix_ioctl" /\ is_active(sync)) =>
             /\ hist.begun = tries
             /\ hist.cancelled = tries - 1
             /\ OwnSets \subseteq {s \in sems : s.id = sync.semid})
    /\ [][(pc = "notify_sem_inc" /\ pc' = "nix_ioctl" /\ tries > 1) =>
             /\ is_active(sync)
             /\ sync'.semid # sync.semid
             /\ ~SemExists(sync.semid)]_vars

\* the third attempt of a removal is about to issue under the third
\* transaction of the call, the only set of the call that exists
C37_Witness ==
    /\ pc = "nix_ioctl"
    /\ ioctl = "DM_DEV_REMOVE_CMD"
    /\ tries = 3
    /\ is_active(sync)
    /\ hist.begun = 3 /\ hist.cancelled = 2
    /\ OwnSets = {SemOf(sync.semid)}
    /\ sync.semid = next_semid - 1

\* C38: when begin fails inside do_ioctl, DM::ioctl returns the error of
\* begin: no ioctl syscall is issued in that attempt and no further attempt
\* is made, for device removal as for every other command, whatever is left
\* of the retry delays.
C38_BeginFailureEndsCall ==
    /\ []((pc = "done" /\ ~BeginNeverFailed) =>
             /\ result = UdevSyncError
             /\ hist.issued = 0
             /\ hist.begun = tries - 1)
    /\ [][~BeginNeverFailed' =>
             /\ pc' \in {"create_destroy", "begin_destroy", "done"}
             /\ tries' = tries
             /\ delays' = delays
             /\ hist'.ioctls = hist.ioctls]_vars

\* the begin of the second attempt of a removal failed: the call returned
\* its error with 23 delays left
C38_Witness ==
    /\ pc = "done"
    /\ ioctl = "DM_DEV_REMOVE_CMD"
    /\ ~BeginNeverFailed
    /\ tries = 2
    /\ delays = IOCTL_RETRIES - 1
    /\ hist.retried = {"EBUSY"}
    /\ hist.ioctls = 1
    /\ hist.issued = 0
    /\ result = UdevSyncError

\* C39: list_devices returns None as the event number of every entry when
\* the minor version in the header of the kernel's response is at most 36,
\* and Some for every entry when it is greater, whatever minor version
\* do_ioctl had stamped into the request.
C39_EventNrByResponseVersion ==
    [][(list_devices /\ decoded'.kind = "Ok") =>
          \A i \in 1..Len(decoded'.value) :
              decoded'.value[i].event_nr.some <=> data_out.minor > 36]_vars

\* two devices listed by a kernel of minor version 37, each with its event
\* number
C39_Witness ==
    /\ cpc = "done"
    /\ data_out.minor = 37
    /\ decoded.kind = "Ok"
    /\ Len(decoded.value) = 2
    /\ \A i \in 1..2 : decoded.value[i].event_nr.some

\* two devices listed by a kernel of minor version 36, none with an event
\* number
C39_WitnessOld ==
    /\ cpc = "done"
    /\ data_out.minor = 36
    /\ decoded.kind = "Ok"
    /\ Len(decoded.value) = 2
    /\ \A i \in 1..2 : decoded.value[i].event_nr = None

\* mutant: the slice is not advanced
rest_after_same(res, next) == res

\* result = &result[next as usize..]: what is left of the data after a
\* record with a next offset that is not zero
rest_after(res, next) == Slice(res, next)

\* the lengths of `result` at the iterations of the loop of list_devices
\* (size NAME_OFFSET, next at offset 8) and of list_versions (size
\* SIZEOF_TARGET_VERSIONS, next at offset 0), at most fuel of them: the
\* loop ends at a record it cannot read, at next = 0, and at a next behind
\* the end of the slice
RECURSIVE walk(_, _, _, _)
walk(res, size, next_at, fuel) ==
    IF fuel = 0 THEN <<>>
    ELSE IF Len(res) < size THEN <<Len(res)>>
    ELSE LET next == as_usize(u32_from_ne_bytes(
                                  Range(res, next_at, next_at + 4)))
         IN  IF next = 0 \/ next > Len(res) THEN <<Len(res)>>
             ELSE <<Len(res)>> \o
                  walk(rest_after(res, next), size, next_at, fuel - 1)

\* the walk of the decoder that is about to run, looked at for one
\* iteration more than the data has bytes
WalkOf ==
    IF cpc = "list_devices"
    THEN walk(data_out.bytes, NAME_OFFSET, 8, Len(data_out.bytes) + 2)
    ELSE walk(data_out.bytes, SIZEOF_TARGET_VERSIONS, 0,
              Len(data_out.bytes) + 2)

\* C40: the walks of list_devices and list_versions over a response end:
\* every step over a next offset that is not zero leaves strictly less of
\* the buffer, so no record is read twice, there are no more iterations
\* than bytes, and the function returns the list when it comes to a record
\* whose next is 0 (one entry per iteration) or fails before.
C40_WalksTerminate ==
    [][((list_devices \/ list_versions) /\ data_out.bytes # <<>>) =>
          /\ \A i \in 1..(Len(WalkOf) - 1) : WalkOf[i + 1] < WalkOf[i]
          /\ Len(WalkOf) <= Len(data_out.bytes)
          /\ decoded'.kind \in {"Ok", "Err", "panic"}
          /\ decoded'.kind = "Ok" => Len(decoded'.value) = Len(WalkOf)]_vars

\* a list of versions whose first next offset is 1 has been walked to its
\* end
C40_Witness ==
    /\ cpc = "done"
    /\ data_out.shape = "overlap"
    /\ data_out.minor = 0
    /\ u32_from_ne_bytes(Range(data_out.bytes, 0, 4)) = u32(1)
    /\ decoded.kind # "none"

\* a list of two devices has been walked to the record whose next is 0
C40_WitnessNames ==
    /\ cpc = "done"
    /\ data_out.shape = "kernel"
    /\ data_out.minor = 37
    /\ decoded.kind = "Ok"
    /\ Len(decoded.value) = 2
    /\ u32_from_ne_bytes(Range(data_out.bytes, 8, 12)) # u32(0)

====
